---- MODULE Spec2Model ----
(***************************************************************************)
(* Model of the photo-album WebDAV gateway: the per-user file engine       *)
(* (upload, overwrite, soft delete, restore), the blob store it writes to, *)
(* the quota rows, the WebDAV path mapper / resource resolver and the      *)
(* session manager.                                                        *)
(*                                                                         *)
(* Strings are sequences of tokens.  The characters the code inspects      *)
(* ("/", ".", "_", NUL and the digits) are always tokens of their own; a   *)
(* run of other characters may be one token ("tmp", " (restored)").        *)
(***************************************************************************)
EXTENDS Integers, Sequences, FiniteSets, TLC

\* ------------------------------------------------------------------ bounds
MaxOps == 4
MaxFaults == 1
MaxCalls == 3
MaxIsoOps == 3
MaxTime == 2
MaxSessionOps == 4
MaxPathLen == 4
MaxBatch == 2
MaxFileOps == 3

\* --------------------------------------------------------- string helpers
NUL == "NUL"

StartsWith(s, pre) ==
    /\ Len(pre) <= Len(s)
    /\ SubSeq(s, 1, Len(pre)) = pre

\* Python: needle in s, for a two-token needle
Contains2(s, a, b) == \E i \in 1..(Len(s) - 1) : s[i] = a /\ s[i + 1] = b

Contains1(s, a) == \E i \in 1..Len(s) : s[i] = a

\* Python str.rfind, 1-based, 0 when absent
RFind(s, c) ==
    IF Contains1(s, c)
    THEN CHOOSE i \in 1..Len(s) : s[i] = c /\ \A j \in (i + 1)..Len(s) : s[j] # c
    ELSE 0

\* Python str.find, 1-based, 0 when absent
Find(s, c) ==
    IF Contains1(s, c)
    THEN CHOOSE i \in 1..Len(s) : s[i] = c /\ \A j \in 1..(i - 1) : s[j] # c
    ELSE 0

RECURSIVE LStrip(_, _)
LStrip(s, c) == IF s # <<>> /\ Head(s) = c THEN LStrip(Tail(s), c) ELSE s

RECURSIVE RStrip(_, _)
RStrip(s, c) ==
    IF s # <<>> /\ s[Len(s)] = c THEN RStrip(SubSeq(s, 1, Len(s) - 1), c) ELSE s

Strip(s, c) == RStrip(LStrip(s, c), c)

\* pathlib: Path(p).name
PathName(p) == SubSeq(p, RFind(p, "/") + 1, Len(p))

\* pathlib: str(Path(p).parent)
PathParent(p) ==
    LET i == RFind(p, "/")
    IN  IF i = 0 THEN <<".">>
        ELSE IF i = 1 THEN <<"/">>
        ELSE SubSeq(p, 1, i - 1)

\* pathlib: Path(p).suffix  (0 < i < len(name) - 1 on the 0-based index)
PathSuffix(p) ==
    LET name == PathName(p)
        i == RFind(name, ".")
    IN  IF 1 < i /\ i < Len(name) THEN SubSeq(name, i, Len(name)) ELSE <<>>

\* pathlib: Path(p).stem
PathStem(p) ==
    LET name == PathName(p)
    IN  SubSeq(name, 1, Len(name) - Len(PathSuffix(p)))

\* str(user.id)
IdStr(u) == IF u = 1 THEN <<"1">> ELSE <<"2">>

Digit(tok) == tok \in {"0", "1", "2"}

DigitVal(tok) == IF tok = "0" THEN 0 ELSE IF tok = "1" THEN 1 ELSE 2

RECURSIVE IntOf(_)
IntOf(s) == IF s = <<>> THEN 0 ELSE 10 * IntOf(SubSeq(s, 1, Len(s) - 1)) + DigitVal(s[Len(s)])

\* pathlib: Path(p).parts[0]
FirstPart(p) ==
    IF Head(p) = "/" THEN <<"/">>
    ELSE IF Find(p, "/") = 0 THEN p
    ELSE SubSeq(p, 1, Find(p, "/") - 1)

\* ------------------------------------------------------- metadata helpers
ValidateStoragePath_NoOwnerCheck(user_id, storage_path) ==
    /\ storage_path # <<>>
    /\ \A i \in 1..Len(FirstPart(storage_path)) : Digit(FirstPart(storage_path)[i])

\* validate_storage_path: TRUE when no ValidationError is raised
ValidateStoragePath(user_id, storage_path) ==
    /\ storage_path # <<>>
    /\ \A i \in 1..Len(FirstPart(storage_path)) : Digit(FirstPart(storage_path)[i])
    /\ IntOf(FirstPart(storage_path)) = user_id

\* content is named by a letter; the byte length and the SHA-256 follow it
SizeOf(c) == IF c = "E" THEN 0 ELSE IF c = "A" THEN 2 ELSE 3

Sha256(c) == <<"sha", c>>

\* ---------------------------------------------------------------- state
VARIABLES
    files,      \* File rows: id -> record
    blobs,      \* object store: key -> content
    quotas,     \* UserQuota rows: user id -> [quota_bytes, used_bytes]
    nextId,     \* next File primary key
    now,        \* clock
    pc,         \* position of each request handler
    loc,        \* arguments and locals of each request handler
    res,        \* outcome of each handler's last operation
    nops,       \* number of engine operations started
    nfaults,    \* number of environment failures injected
    sessions,   \* WebDAVSession rows: session id -> record
    spc,        \* position of each connection handler
    sops,       \* number of session-manager calls started
    req,        \* last resolver request
    resp        \* what the resolver answered

vars == <<files, blobs, quotas, nextId, now, pc, loc, res, nops, nfaults,
          sessions, spc, sops, req, resp>>

fileVars == <<files, blobs, quotas, nextId, pc, loc, res, nops, nfaults>>
sessVars == <<sessions, spc, sops>>
resolveVars == <<req, resp>>

Users == {1, 2}
Procs == {"p1", "p2"}
Tags == {"t1"}

\* default of UserQuota.quota_bytes (10 GiB in the code, scaled down)
DefaultQuotaBytes == 8
\* a limit an administrator has set
QuotaLimit == 4

None == -1

\* -------------------------------------------------------- the File table
\* File.objects: the live view
Objects(fs) == {i \in DOMAIN fs : ~fs[i].is_deleted}

\* File.all_objects
AllObjects(fs) == DOMAIN fs

\* File.objects.filter(user=user, file=storage_path)
LiveAt(fs, user, key) == {i \in Objects(fs) : fs[i].user = user /\ fs[i].file = key}

\* File.objects.filter(user=user, file__startswith=prefix)
LiveUnder(fs, user, prefix) ==
    {i \in Objects(fs) : fs[i].user = user /\ StartsWith(fs[i].file, prefix)}

\* files_user_path_unique: no other row of the user has this path
UniqueOk(fs, id, user, key) ==
    \A j \in DOMAIN fs \ {id} : ~(fs[j].user = user /\ fs[j].file = key)

NewFile(user, key, content, t) ==
    [user |-> user, file |-> key, size_bytes |-> SizeOf(content),
     checksum_sha256 |-> Sha256(content), is_deleted |-> FALSE,
     deleted_at |-> None, original_path |-> <<>>, trash_name |-> <<>>,
     tags |-> {}, modified_at |-> t]

\* --------------------------------------------------------- the blob store
Exists(bl, name) == name \in DOMAIN bl

Put(bl, name, content) == [k \in DOMAIN bl \cup {name} |-> IF k = name THEN content ELSE bl[k]]

StorageDelete(bl, name) == [k \in DOMAIN bl \ {name} |-> bl[k]]

\* os.path.splitext(name)[1]
SplitExt(p) ==
    LET name == PathName(p)
        i == RFind(name, ".")
    IN  IF i > 1 /\ (\E j \in 1..(i - 1) : name[j] # ".")
        THEN SubSeq(name, i, Len(name)) ELSE <<>>

\* Storage.get_alternative_name: root + "_" + random + ext
AltName(p, tag) ==
    SubSeq(p, 1, Len(p) - Len(SplitExt(p))) \o <<"_", tag>> \o SplitExt(p)

\* the random part of an alternative name; ones never collide by chance, so
\* the first unused one stands for a fresh random string
AltTag(i) == "r" \o ToString(i)

\* Storage.get_available_name with file_overwrite = False: the name itself
\* when no object has it, else root_<random>ext for a fresh random part
SaveName(bl, name, taken) ==
    IF ~Exists(bl, name) THEN name
    ELSE LET free == {i \in 1..(Cardinality(DOMAIN bl) + Cardinality(taken) + 1) :
                        /\ ~Exists(bl, AltName(name, AltTag(i)))
                        /\ AltName(name, AltTag(i)) \notin taken}
         IN  AltName(name, AltTag(CHOOSE i \in free : \A j \in free : i <= j))

RollbackUpload_Never(bl, name, delfails) == bl

\* FileStorage.rollback_upload: best-effort delete
RollbackUpload(bl, name, delfails) == IF delfails THEN bl ELSE StorageDelete(bl, name)

\* ------------------------------------------------ engine calls, as functions
\* Each takes the store st = [files, blobs, nextId] and returns the store
\* after the call with the outcome.  fail names the step at which the
\* environment fails ("none": nowhere); rbfails / delfails say whether the
\* compensating or the clean-up delete fails as well.

Store(fs, bl, nid) == [files |-> fs, blobs |-> bl, nextId |-> nid]

Outcome(st, ok, err, fid) ==
    [files |-> st.files, blobs |-> st.blobs, nextId |-> st.nextId,
     ok |-> ok, err |-> err, fid |-> fid]

\* upload_file, step 2: create the row or roll the upload back
UploadCommitCall(st, user, name, content, dbfails, rbfails, t) ==
    IF ~dbfails /\ UniqueOk(st.files, st.nextId, user, name)
    THEN Outcome(Store(st.files @@ (st.nextId :> NewFile(user, name, content, t)),
                       st.blobs, st.nextId + 1),
                 TRUE, "", st.nextId)
    ELSE Outcome(Store(st.files, RollbackUpload(st.blobs, name, rbfails), st.nextId),
                 FALSE, "DatabaseError", 0)

\* upload_file(user, storage_path, file_obj)
UploadFileCall(st, user, path, content, fail, rbfails, t) ==
    IF ~ValidateStoragePath(user, path) THEN Outcome(st, FALSE, "ValidationError", 0)
    ELSE IF fail = "put" THEN Outcome(st, FALSE, "StorageError", 0)
    ELSE LET name == SaveName(st.blobs, path, {})
         IN  UploadCommitCall(Store(st.files, Put(st.blobs, name, content), st.nextId),
                              user, name, content, fail = "db", rbfails, t)

TempPath(old) == old \o <<".", "tmp">>

UpdateCommitCall_NoRollback(st, fid, old, content, dbfails, rbfails, t) ==
    IF /\ ~dbfails
       /\ fid \in DOMAIN st.files
       /\ UniqueOk(st.files, fid, st.files[fid].user, TempPath(old))
    THEN Outcome(Store([st.files EXCEPT ![fid].file = TempPath(old),
                                        ![fid].size_bytes = SizeOf(content),
                                        ![fid].checksum_sha256 = Sha256(content),
                                        ![fid].modified_at = t],
                       st.blobs, st.nextId),
                 TRUE, "", fid)
    ELSE Outcome(st, FALSE, "DatabaseError", fid)

\* _upload_and_update_file, step 2: point the row at the temp path
UpdateCommitCall(st, fid, old, content, dbfails, rbfails, t) ==
    IF /\ ~dbfails
       /\ fid \in DOMAIN st.files
       /\ UniqueOk(st.files, fid, st.files[fid].user, TempPath(old))
    THEN Outcome(Store([st.files EXCEPT ![fid].file = TempPath(old),
                                        ![fid].size_bytes = SizeOf(content),
                                        ![fid].checksum_sha256 = Sha256(content),
                                        ![fid].modified_at = t],
                       st.blobs, st.nextId),
                 TRUE, "", fid)
    ELSE Outcome(Store(st.files, RollbackUpload(st.blobs, TempPath(old), rbfails),
                       st.nextId),
                 FALSE, "DatabaseError", fid)

\* _upload_and_update_file, step 3: best-effort delete of the old content
UpdateCleanupCall(st, old, delfails) ==
    Store(st.files, IF delfails THEN st.blobs ELSE StorageDelete(st.blobs, old), st.nextId)

\* update_file_content(file_id, file_obj)
UpdateFileCall(st, fid, content, fail, rbfails, delfails, t) ==
    IF fid \notin Objects(st.files) THEN Outcome(st, FALSE, "DoesNotExist", fid)
    ELSE IF fail = "put" THEN Outcome(st, FALSE, "StorageError", fid)
    ELSE LET old == st.files[fid].file
             name == SaveName(st.blobs, TempPath(old), {})
             c == UpdateCommitCall(Store(st.files, Put(st.blobs, name, content), st.nextId),
                                   fid, old, content, fail = "db", rbfails, t)
         IN  IF c.ok THEN Outcome(UpdateCleanupCall(c, old, delfails), TRUE, "", fid)
             ELSE c

\* move_file(user, old_path, new_path)
MoveFileCall(st, user, old, new, fail, rbfails, delfails, t) ==
    IF ~ValidateStoragePath(user, new) THEN Outcome(st, FALSE, "ValidationError", 0)
    ELSE IF LiveAt(st.files, user, old) = {} THEN Outcome(st, FALSE, "DoesNotExist", 0)
    ELSE LET fid == CHOOSE i \in LiveAt(st.files, user, old) : TRUE
         IN  IF ~Exists(st.blobs, old) \/ fail = "move_put"
             THEN Outcome(st, FALSE, "StorageError", fid)
             ELSE LET name == SaveName(st.blobs, new, {})
                      bl1 == Put(st.blobs, name, st.blobs[old])
                  IN  IF fail = "move_db" \/ ~UniqueOk(st.files, fid, user, new)
                      THEN Outcome(Store(st.files, RollbackUpload(bl1, new, rbfails),
                                         st.nextId),
                                   FALSE, "DatabaseError", fid)
                      ELSE Outcome(Store([st.files EXCEPT ![fid].file = new,
                                                          ![fid].modified_at = t],
                                         IF delfails THEN bl1 ELSE StorageDelete(bl1, old),
                                         st.nextId),
                                   TRUE, "", fid)

TimeTok(t) == "T" \o ToString(t)

\* _generate_trash_name: stem__timestamp.suffix
GenerateTrashName(storage_path, t) ==
    PathStem(storage_path) \o <<"_", "_", TimeTok(t)>> \o PathSuffix(storage_path)

SoftDeleteCall_Renames(st, fid, dbfails, t) ==
    IF fid \notin Objects(st.files) THEN Outcome(st, FALSE, "DoesNotExist", fid)
    ELSE IF dbfails THEN Outcome(st, FALSE, "DatabaseError", fid)
    ELSE Outcome(Store([st.files EXCEPT ![fid].is_deleted = TRUE,
                                        ![fid].deleted_at = t,
                                        ![fid].original_path = st.files[fid].file,
                                        ![fid].trash_name =
                                            GenerateTrashName(st.files[fid].file, t),
                                        ![fid].file =
                                            PathParent(st.files[fid].file) \o <<"/">>
                                                \o GenerateTrashName(st.files[fid].file, t),
                                        ![fid].modified_at = t],
                       st.blobs, st.nextId),
                 TRUE, "", fid)

\* soft_delete_file(file_id)
SoftDeleteCall(st, fid, dbfails, t) ==
    IF fid \notin Objects(st.files) THEN Outcome(st, FALSE, "DoesNotExist", fid)
    ELSE IF dbfails THEN Outcome(st, FALSE, "DatabaseError", fid)
    ELSE Outcome(Store([st.files EXCEPT ![fid].is_deleted = TRUE,
                                        ![fid].deleted_at = t,
                                        ![fid].original_path = st.files[fid].file,
                                        ![fid].trash_name =
                                            GenerateTrashName(st.files[fid].file, t),
                                        ![fid].modified_at = t],
                       st.blobs, st.nextId),
                 TRUE, "", fid)

FolderMarker == <<".", "folder">>

\* _ensure_parent_folder(user, storage_path)
EnsureParentFolderCall(st, user, storage_path, fail, rbfails, t) ==
    LET parent == PathParent(storage_path)
        marker_path == parent \o <<"/">> \o FolderMarker
    IN  IF parent = IdStr(user) THEN Outcome(st, TRUE, "", 0)
        ELSE IF LiveAt(st.files, user, marker_path) # {} THEN Outcome(st, TRUE, "", 0)
        ELSE IF LiveUnder(st.files, user, parent \o <<"/">>) # {} THEN Outcome(st, TRUE, "", 0)
        ELSE UploadFileCall(st, user, marker_path, "E",
                            IF fail = "marker_put" THEN "put"
                            ELSE IF fail = "marker_db" THEN "db" ELSE "none",
                            rbfails, t)

RestoredName_NoSuffix(target_path) ==
    PathParent(target_path) \o <<"/">> \o PathStem(target_path) \o <<" (restored)">>

\* restore_file: the name a restored file gets when its target is occupied
RestoredName(target_path) ==
    PathParent(target_path) \o <<"/">> \o PathStem(target_path)
        \o <<" (restored)">> \o PathSuffix(target_path)

ClearTrashFlags(fs, fid, t) ==
    [fs EXCEPT ![fid].is_deleted = FALSE, ![fid].deleted_at = None,
               ![fid].original_path = <<>>, ![fid].trash_name = <<>>,
               ![fid].modified_at = t]

RestoreTarget_AlwaysRenamed(fs, fid, dest) ==
    RestoredName(IF dest # <<>> THEN dest ELSE fs[fid].original_path)

\* restore_file: the target path after the conflict check
RestoreTarget(fs, fid, dest) ==
    LET target0 == IF dest # <<>> THEN dest ELSE fs[fid].original_path
    IN  IF LiveAt(fs, fs[fid].user, target0) # {} THEN RestoredName(target0) ELSE target0

\* restore_file(file_id, destination_path); dest = <<>> stands for None
RestoreFileCall(st, fid, dest, fail, rbfails, delfails, t) ==
    IF fid \notin AllObjects(st.files) \/ fid \in Objects(st.files)
    THEN Outcome(st, FALSE, "DoesNotExist", fid)
    ELSE LET user == st.files[fid].user
             current == st.files[fid].file
         IN  CHOOSE r \in
               {IF ~m.ok THEN Outcome(m, FALSE, m.err, fid)
                ELSE IF fail = "flags_db" THEN Outcome(m, FALSE, "DatabaseError", fid)
                ELSE LET cleared == Store(ClearTrashFlags(m.files, fid, t), m.blobs,
                                          m.nextId)
                     IN  IF target_path # current
                         THEN LET mv == MoveFileCall(cleared, user, current, target_path,
                                                     fail, rbfails, delfails, t)
                              IN  Outcome(mv, mv.ok, mv.err, fid)
                         ELSE Outcome(cleared, TRUE, "", fid) :
                  <<target_path, m>> \in
                      {<<tp, EnsureParentFolderCall(st, user, tp, fail, rbfails, t)>> :
                          tp \in {RestoreTarget(st.files, fid, dest)}}} : TRUE

\* ------------------------------------------------------- request handlers
\* How the environment fails during one call: at no step, at one step, at one
\* step and again in the compensating delete ("+rb"), or only in the final
\* clean-up delete ("del").
StepOf(fail) ==
    CASE fail = "db+rb" -> "db"
      [] fail = "marker_db+rb" -> "marker_db"
      [] fail = "move_db+rb" -> "move_db"
      [] fail = "del" -> "none"
      [] OTHER -> fail

RbFails(fail) == fail \in {"db+rb", "marker_db+rb", "move_db+rb"}

NoMeta == [file |-> <<>>, size_bytes |-> 0, checksum_sha256 |-> <<>>, modified_at |-> None]

MetaOf(r) ==
    [file |-> r.file, size_bytes |-> r.size_bytes,
     checksum_sha256 |-> r.checksum_sha256, modified_at |-> r.modified_at]

NoRec ==
    [user |-> 0, file |-> <<>>, size_bytes |-> 0, checksum_sha256 |-> <<>>,
     is_deleted |-> FALSE, deleted_at |-> None, original_path |-> <<>>,
     trash_name |-> <<>>, tags |-> {}, modified_at |-> None]

\* op and its arguments; fail is what the environment does to the call; snap
\* and old are the row and the blob content a soft delete found; batch is the
\* --batch-size of a cleanup run, count the number empty_trash reached
NoLoc ==
    [op |-> "none", user |-> 0, path |-> <<>>, content |-> "", fid |-> 0,
     dest |-> <<>>, name |-> <<>>, fail |-> "none", snap |-> NoRec, old |-> "",
     batch |-> 0, count |-> 0]

\* a GET as a function of the store: the resolver finds the live row of
\* (user, path), FileResource.get_content opens the blob the row names
ReadCall(fs, bl, user, path) ==
    LET hit == LiveAt(fs, user, path)
    IN  IF hit = {} THEN [ok |-> FALSE, err |-> "NotFound", fid |-> 0, data |-> "",
                          meta |-> NoMeta]
        ELSE LET fid == CHOOSE i \in hit : TRUE
             IN  IF Exists(bl, fs[fid].file)
                 THEN [ok |-> TRUE, err |-> "", fid |-> fid, data |-> bl[fs[fid].file],
                       meta |-> MetaOf(fs[fid])]
                 ELSE [ok |-> FALSE, err |-> "StorageError", fid |-> fid, data |-> "",
                       meta |-> MetaOf(fs[fid])]

NoRes == [op |-> "none", ok |-> FALSE, err |-> "", fid |-> 0, data |-> "", meta |-> NoMeta]

\* storage paths handed to the engine: two of user 1, one of user 2
K_r == <<"1", "/", "r", ".", "t">>
K_dr == <<"1", "/", "d", "/", "r", ".", "t">>
K_2r == <<"2", "/", "r", ".", "t">>
EnginePaths == {K_r, K_dr, K_2r}

\* an injected failure counts when it changes the call's outcome
Fault(fail, out, base) ==
    /\ fail = "none" \/ (nfaults < MaxFaults /\ out # base)
    /\ nfaults' = IF fail = "none" THEN nfaults ELSE nfaults + 1

\* the handler of p returns: the store becomes out, the outcome is recorded
Return(p, l, out, data, meta) ==
    /\ files' = out.files
    /\ blobs' = out.blobs
    /\ nextId' = out.nextId
    /\ pc' = [pc EXCEPT ![p] = "idle"]
    /\ nops' = nops + 1
    /\ loc' = [loc EXCEPT ![p] = l]
    /\ res' = [res EXCEPT ![p] = [op |-> l.op, ok |-> out.ok, err |-> out.err,
                                  fid |-> out.fid, data |-> data, meta |-> meta]]

CanStart(p) ==
    /\ pc[p] = "idle"
    /\ nops < MaxOps

\* upload_file as one call
Upload(p, user, path, content, fail) ==
    /\ CanStart(p)
    /\ LET st == Store(files, blobs, nextId)
           out == UploadFileCall(st, user, path, content, StepOf(fail), RbFails(fail), now)
           base == UploadFileCall(st, user, path, content, "none", FALSE, now)
       IN  /\ Fault(fail, out, base)
           /\ Return(p, [NoLoc EXCEPT !.op = "upload", !.user = user, !.path = path,
                                      !.content = content, !.fail = fail],
                     out, "", NoMeta)
    /\ UNCHANGED <<quotas, now, sessVars, resolveVars>>

\* update_file_content as one call
Update(p, fid, content, fail) ==
    /\ CanStart(p)
    /\ fid \in DOMAIN files
    /\ LET st == Store(files, blobs, nextId)
           out == UpdateFileCall(st, fid, content, StepOf(fail), RbFails(fail),
                                 fail = "del", now)
           base == UpdateFileCall(st, fid, content, "none", FALSE, FALSE, now)
       IN  /\ Fault(fail, out, base)
           /\ Return(p, [NoLoc EXCEPT !.op = "update", !.fid = fid, !.content = content,
                                      !.user = files[fid].user, !.path = files[fid].file,
                                      !.fail = fail],
                     out, "", NoMeta)
    /\ UNCHANGED <<quotas, now, sessVars, resolveVars>>

\* soft_delete_file
SoftDelete(p, fid, fail) ==
    /\ CanStart(p)
    /\ fid \in DOMAIN files
    /\ LET st == Store(files, blobs, nextId)
           out == SoftDeleteCall(st, fid, fail = "db", now)
           base == SoftDeleteCall(st, fid, FALSE, now)
       IN  /\ Fault(fail, out, base)
           /\ Return(p, [NoLoc EXCEPT !.op = "soft_delete", !.fid = fid,
                                      !.user = files[fid].user, !.path = files[fid].file,
                                      !.fail = fail, !.snap = files[fid],
                                      !.old = IF Exists(blobs, files[fid].file)
                                              THEN blobs[files[fid].file] ELSE ""],
                     out, "", NoMeta)
    /\ UNCHANGED <<quotas, now, sessVars, resolveVars>>

RestoreFails ==
    {"none", "marker_put", "marker_db", "marker_db+rb", "flags_db",
     "move_put", "move_db", "move_db+rb", "del"}

\* restore_file
Restore(p, fid, dest, fail) ==
    /\ CanStart(p)
    /\ fid \in DOMAIN files
    /\ LET st == Store(files, blobs, nextId)
           out == RestoreFileCall(st, fid, dest, StepOf(fail), RbFails(fail),
                                  fail = "del", now)
           base == RestoreFileCall(st, fid, dest, "none", FALSE, FALSE, now)
       IN  /\ Fault(fail, out, base)
           /\ Return(p, [NoLoc EXCEPT !.op = "restore", !.fid = fid, !.dest = dest,
                                      !.user = files[fid].user, !.path = files[fid].file,
                                      !.fail = fail],
                     out, "", NoMeta)
    /\ UNCHANGED <<quotas, now, sessVars, resolveVars>>

\* file.tags.add(tag)
TagAdd(p, fid, tag) ==
    /\ CanStart(p)
    /\ fid \in DOMAIN files
    /\ tag \notin files[fid].tags
    /\ UNCHANGED nfaults
    /\ Return(p, [NoLoc EXCEPT !.op = "tag", !.fid = fid],
              Outcome(Store([files EXCEPT ![fid].tags = @ \cup {tag}], blobs, nextId),
                      TRUE, "", fid),
              "", NoMeta)
    /\ UNCHANGED <<quotas, now, sessVars, resolveVars>>

Tick ==
    /\ now < MaxTime
    /\ now' = now + 1
    /\ UNCHANGED <<fileVars, sessVars, resolveVars>>

\* --------------------------------------------------------- specification
InitQuotas ==
    {[u \in D |-> [quota_bytes |-> QuotaLimit, used_bytes |-> 0]] : D \in SUBSET {1}}

InitFiles ==
    /\ files = <<>>
    /\ blobs = <<>>
    /\ quotas \in InitQuotas
    /\ nextId = 1
    /\ pc = [p \in Procs |-> "idle"]
    /\ loc = [p \in Procs |-> NoLoc]
    /\ res = [p \in Procs |-> NoRes]
    /\ nops = 0
    /\ nfaults = 0

SIdle == [at |-> "idle", user |-> 0]

InitSessionsIdle ==
    /\ sessions = <<>>
    /\ spc = [p \in Procs |-> SIdle]
    /\ sops = 0

\* what get_resource_inst returns: kind "none" stands for None, ids are the
\* File rows the resource was built from
NoResource == [kind |-> "none", ids |-> {}]
Unasked == [kind |-> "unasked", ids |-> {}]

InitResolveIdle ==
    /\ req = [user |-> 0, path |-> <<>>]
    /\ resp = Unasked

Init ==
    /\ InitFiles
    /\ now = 0
    /\ InitSessionsIdle
    /\ InitResolveIdle

UploadFails == {"none", "put", "db", "db+rb"}
UpdateFails == {"none", "put", "db", "db+rb", "del"}

Next ==
    \/ \E path \in EnginePaths, content \in {"A", "B"}, fail \in UploadFails :
            Upload("p1", 1, path, content, fail)
    \/ \E fid \in 1..MaxOps, content \in {"A", "B"}, fail \in UpdateFails :
            Update("p1", fid, content, fail)
    \/ \E fid \in 1..MaxOps, fail \in {"none", "db"} : SoftDelete("p1", fid, fail)
    \/ \E fid \in 1..MaxOps, dest \in {<<>>, K_r, K_dr}, fail \in RestoreFails :
            Restore("p1", fid, dest, fail)
    \/ \E fid \in 1..MaxOps, tag \in Tags : TagAdd("p1", fid, tag)

Spec == Init /\ [][Next]_vars

\* ------------------------------------------- the engine, handlers interleaved
\* Two request handlers of user 1 run the same engine calls one statement at a
\* time: every storage call and every database transaction is a step.
CanCall(p) ==
    /\ pc[p] = "idle"
    /\ nops < MaxCalls

\* handler p moves on to statement next with locals l
Goto(p, next, l) ==
    /\ pc' = [pc EXCEPT ![p] = next]
    /\ loc' = [loc EXCEPT ![p] = l]

\* handler p returns the outcome
Finish(p, ok, err, fid, data, meta) ==
    /\ pc' = [pc EXCEPT ![p] = "idle"]
    /\ res' = [res EXCEPT ![p] = [op |-> loc'[p].op, ok |-> ok, err |-> err, fid |-> fid,
                                  data |-> data, meta |-> meta]]

\* upload_file: validate_storage_path, checksum, size
CUploadBegin(p, user, path, content) ==
    /\ CanCall(p)
    /\ nops' = nops + 1
    /\ loc' = [loc EXCEPT ![p] = [NoLoc EXCEPT !.op = "upload", !.user = user,
                                               !.path = path, !.content = content]]
    /\ IF ValidateStoragePath(user, path)
       THEN /\ pc' = [pc EXCEPT ![p] = "u_name"]
            /\ UNCHANGED res
       ELSE Finish(p, FALSE, "ValidationError", 0, "", NoMeta)
    /\ UNCHANGED <<files, blobs, quotas, nextId, nfaults, now, sessVars, resolveVars>>

\* storage.save: get_available_name
CUploadName(p) ==
    /\ pc[p] = "u_name"
    /\ Goto(p, "u_put", [loc[p] EXCEPT !.name = SaveName(blobs, loc[p].path, {})])
    /\ UNCHANGED <<files, blobs, quotas, nextId, res, nops, nfaults, now, sessVars,
                   resolveVars>>

\* storage.save: the put
CUploadPut(p) ==
    /\ pc[p] = "u_put"
    /\ blobs' = Put(blobs, loc[p].name, loc[p].content)
    /\ Goto(p, "u_commit", loc[p])
    /\ UNCHANGED <<files, quotas, nextId, res, nops, nfaults, now, sessVars, resolveVars>>

\* upload_file: the transaction that creates the row, or the rollback
CUploadCommit(p) ==
    /\ pc[p] = "u_commit"
    /\ LET out == UploadCommitCall(Store(files, blobs, nextId), loc[p].user, loc[p].name,
                                   loc[p].content, FALSE, FALSE, now)
       IN  /\ files' = out.files
           /\ blobs' = out.blobs
           /\ nextId' = out.nextId
           /\ loc' = loc
           /\ Finish(p, out.ok, out.err, out.fid, "", NoMeta)
    /\ UNCHANGED <<quotas, nops, nfaults, now, sessVars, resolveVars>>

\* update_file_content: File.objects.get(id=file_id)
CUpdateBegin(p, fid, content) ==
    /\ CanCall(p)
    /\ nops' = nops + 1
    /\ IF fid \in Objects(files)
       THEN /\ Goto(p, "w_name", [NoLoc EXCEPT !.op = "update", !.fid = fid,
                                              !.content = content,
                                              !.user = files[fid].user,
                                              !.path = files[fid].file,
                                              !.snap = files[fid]])
            /\ UNCHANGED res
       ELSE /\ loc' = [loc EXCEPT ![p] = [NoLoc EXCEPT !.op = "update", !.fid = fid,
                                                       !.content = content]]
            /\ Finish(p, FALSE, "DoesNotExist", fid, "", NoMeta)
    /\ UNCHANGED <<files, blobs, quotas, nextId, nfaults, now, sessVars, resolveVars>>

\* _upload_and_update_file, step 1: storage.save picks the name
CUpdateName(p) ==
    /\ pc[p] = "w_name"
    /\ Goto(p, "w_put", [loc[p] EXCEPT !.name = SaveName(blobs, TempPath(loc[p].path), {})])
    /\ UNCHANGED <<files, blobs, quotas, nextId, res, nops, nfaults, now, sessVars,
                   resolveVars>>

\* _upload_and_update_file, step 1: the put
CUpdatePut(p) ==
    /\ pc[p] = "w_put"
    /\ blobs' = Put(blobs, loc[p].name, loc[p].content)
    /\ Goto(p, "w_commit", loc[p])
    /\ UNCHANGED <<files, quotas, nextId, res, nops, nfaults, now, sessVars, resolveVars>>

\* _upload_and_update_file, step 2
CUpdateCommit(p) ==
    /\ pc[p] = "w_commit"
    /\ LET out == UpdateCommitCall(Store(files, blobs, nextId), loc[p].fid, loc[p].path,
                                   loc[p].content, FALSE, FALSE, now)
       IN  /\ files' = out.files
           /\ blobs' = out.blobs
           /\ loc' = loc
           /\ IF out.ok
              THEN /\ pc' = [pc EXCEPT ![p] = "w_cleanup"]
                   /\ UNCHANGED res
              ELSE Finish(p, FALSE, out.err, out.fid, "", NoMeta)
    /\ UNCHANGED <<quotas, nextId, nops, nfaults, now, sessVars, resolveVars>>

\* _upload_and_update_file, step 3
CUpdateCleanup(p) ==
    /\ pc[p] = "w_cleanup"
    /\ blobs' = UpdateCleanupCall(Store(files, blobs, nextId), loc[p].path, FALSE).blobs
    /\ Goto(p, "w_return", loc[p])
    /\ UNCHANGED <<files, quotas, nextId, res, nops, nfaults, now, sessVars, resolveVars>>

\* update_file_content returns the instance
CUpdateReturn(p) ==
    /\ pc[p] = "w_return"
    /\ loc' = loc
    /\ Finish(p, TRUE, "", loc[p].fid, "", NoMeta)
    /\ UNCHANGED <<files, blobs, quotas, nextId, nops, nfaults, now, sessVars, resolveVars>>

\* GET, first half: get_resource_inst finds the live row of the path
CReadResolve(p, user, path) ==
    /\ CanCall(p)
    /\ nops' = nops + 1
    /\ LET hit == LiveAt(files, user, path)
           l == [NoLoc EXCEPT !.op = "read", !.user = user, !.path = path]
       IN  IF hit # {}
           THEN /\ Goto(p, "r_open", [l EXCEPT !.fid = CHOOSE i \in hit : TRUE,
                                               !.snap = files[CHOOSE i \in hit : TRUE]])
                /\ UNCHANGED res
           ELSE /\ loc' = [loc EXCEPT ![p] = l]
                /\ Finish(p, FALSE, "NotFound", 0, "", NoMeta)
    /\ UNCHANGED <<files, blobs, quotas, nextId, nfaults, now, sessVars, resolveVars>>

\* GET, second half: FileResource.get_content opens the blob of the row
CReadOpen(p) ==
    /\ pc[p] = "r_open"
    /\ loc' = loc
    /\ LET r == ReadCall(loc[p].fid :> loc[p].snap, blobs, loc[p].user, loc[p].snap.file)
       IN  Finish(p, r.ok, r.err, loc[p].fid, r.data, r.meta)
    /\ UNCHANGED <<files, blobs, quotas, nextId, nops, nfaults, now, sessVars, resolveVars>>

NextConc ==
    \E p \in Procs :
        \/ \E path \in EnginePaths, content \in {"A", "B"} : CUploadBegin(p, 1, path, content)
        \/ CUploadName(p)
        \/ CUploadPut(p)
        \/ CUploadCommit(p)
        \/ \E fid \in 1..MaxCalls, content \in {"A", "B"} : CUpdateBegin(p, fid, content)
        \/ CUpdateName(p)
        \/ CUpdatePut(p)
        \/ CUpdateCommit(p)
        \/ CUpdateCleanup(p)
        \/ CUpdateReturn(p)
        \/ \E path \in {K_r, K_dr} : CReadResolve(p, 1, path)
        \/ CReadOpen(p)

SpecConc == Init /\ [][NextConc]_vars

\* a request handler that has started runs to its return: the worker thread
\* serving it is not abandoned between two statements
SpecConcFair == SpecConc /\ WF_vars(NextConc)

\* ------------------------------------------------ the engine, one call a step
\* In Spec only p1 calls the engine and every step is one whole call, so the
\* unprimed variables are the store the call found and the primed ones the
\* store it left.
Returned(op) ==
    /\ nops' = nops + 1
    /\ res'["p1"].op = op

UsedBytes(q, user) == IF user \in DOMAIN q THEN q[user].used_bytes ELSE 0

\* C2: after upload(P, q, b) returns success a live record of P exists at
\* the key of q, reading q yields b with the recorded size and SHA-256 of b,
\* and P's used bytes have grown by |b| (the quota row created if missing)
C2_UploadSuccess ==
    [][(Returned("upload") /\ res'["p1"].ok) =>
        LET l == loc'["p1"]
            r == ReadCall(files', blobs', l.user, l.path)
        IN  /\ r.ok
            /\ r.data = l.content
            /\ r.meta.size_bytes = SizeOf(l.content)
            /\ r.meta.checksum_sha256 = Sha256(l.content)
            /\ l.user \in DOMAIN quotas'
            /\ quotas'[l.user].used_bytes = UsedBytes(quotas, l.user) + SizeOf(l.content)]_vars

\* C3 as stated: after upload(P, q, b) returns failure no live record exists
\* at the key of q, the used bytes are unchanged and no blob the upload wrote
\* remains
C3_UploadFailureLeavesNothing ==
    [][(Returned("upload") /\ ~res'["p1"].ok) =>
        /\ LiveAt(files', loc'["p1"].user, loc'["p1"].path) = {}
        /\ quotas' = quotas
        /\ blobs' = blobs]_vars

\* C3: after upload(P, q, b) returns failure the rows and the used bytes are
\* as the call found them, and so are the blobs unless the insert failed and
\* the compensating delete failed too: then the one blob the upload wrote
\* remains, with no row naming it
C3_UploadFailure ==
    [][(Returned("upload") /\ ~res'["p1"].ok) =>
        /\ files' = files
        /\ quotas' = quotas
        /\ IF RbFails(loc'["p1"].fail)
           THEN \E k \in DOMAIN blobs' \ DOMAIN blobs :
                    /\ blobs' = Put(blobs, k, loc'["p1"].content)
                    /\ \A i \in DOMAIN files' : files'[i].file # k
           ELSE blobs' = blobs]_vars

\* an upload whose insert failed after the put, and was rolled back
C3_Witness ==
    /\ res["p1"].op = "upload"
    /\ res["p1"].err = "DatabaseError"
    /\ loc["p1"].fail = "db"
    /\ files # <<>>

\* C6 as stated: an overwrite of live q (bytes X) that fails at the metadata
\* commit leaves q reading X with its old size and SHA-256, no blob at
\* old_key + ".tmp", and the used bytes unchanged
C6_OverwriteCommitFailureClean ==
    [][(/\ Returned("update")
        /\ res'["p1"].err = "DatabaseError"
        /\ ReadCall(files, blobs, loc'["p1"].user, loc'["p1"].path).ok) =>
        /\ ReadCall(files', blobs', loc'["p1"].user, loc'["p1"].path)
             = ReadCall(files, blobs, loc'["p1"].user, loc'["p1"].path)
        /\ ~Exists(blobs', TempPath(loc'["p1"].path))
        /\ quotas' = quotas]_vars

\* C6: an overwrite of live q (bytes X) that fails at the metadata commit
\* leaves q reading X with its old size and SHA-256 and the used bytes
\* unchanged; no blob is at old_key + ".tmp" unless the compensating delete
\* failed as well
C6_OverwriteCommitFailure ==
    [][(/\ Returned("update")
        /\ res'["p1"].err = "DatabaseError"
        /\ ReadCall(files, blobs, loc'["p1"].user, loc'["p1"].path).ok) =>
        /\ ReadCall(files', blobs', loc'["p1"].user, loc'["p1"].path)
             = ReadCall(files, blobs, loc'["p1"].user, loc'["p1"].path)
        /\ files' = files
        /\ quotas' = quotas
        /\ ~RbFails(loc'["p1"].fail) => ~Exists(blobs', TempPath(loc'["p1"].path))]_vars

\* an overwrite of a readable file whose commit failed
C6_Witness ==
    /\ res["p1"].op = "update"
    /\ res["p1"].err = "DatabaseError"
    /\ loc["p1"].fail = "db"
    /\ ReadCall(files, blobs, loc["p1"].user, loc["p1"].path).ok

AfterUploadTrashUpload ==
    /\ nops = 3
    /\ nfaults = 0
    /\ DOMAIN files = {1, 2}
    /\ files[1].is_deleted
    /\ files[1].original_path = K_r
    /\ files[1].checksum_sha256 = Sha256("A")
    /\ ~files[2].is_deleted
    /\ res["p1"].op = "upload"
    /\ res["p1"].ok
    /\ loc["p1"].path = K_r
    /\ loc["p1"].content = "B"

\* restore(fid, dest) found a live record at the path it was to restore to
RestoreConflict ==
    /\ Returned("restore")
    /\ res'["p1"].ok
    /\ res'["p1"].fid \in DOMAIN files
    /\ LiveAt(files, loc'["p1"].user,
              IF loc'["p1"].dest # <<>> THEN loc'["p1"].dest
              ELSE files[res'["p1"].fid].original_path) # {}

\* restore to an occupied path: the restored record is live at
\* "{stem} (restored){ext}" in the same parent, every other record of the
\* store before is unchanged
RestoreRenames ==
    LET f == res'["p1"].fid
        target0 == IF loc'["p1"].dest # <<>> THEN loc'["p1"].dest
                   ELSE files[f].original_path
    IN  /\ f \in Objects(files')
        /\ files'[f].file = PathParent(target0) \o <<"/">> \o PathStem(target0)
                               \o <<" (restored)">> \o PathSuffix(target0)
        /\ \A i \in LiveAt(files, loc'["p1"].user, target0) :
                /\ files'[i] = files[i]
                /\ Exists(blobs, target0) =>
                      (Exists(blobs', target0) /\ blobs'[target0] = blobs[target0])

LimitOf(q, user) == IF user \in DOMAIN q THEN q[user].quota_bytes ELSE DefaultQuotaBytes

\* two uploads of the same size to different paths of user 1, and nothing
\* else, have both returned
TwoUploadsReturned ==
    /\ nops = 2
    /\ \A p \in Procs : pc[p] = "idle" /\ res[p].op = "upload"
    /\ loc["p1"].content = loc["p2"].content
    /\ loc["p1"].path # loc["p2"].path
    /\ \A p \in Procs : ValidateStoragePath(1, loc[p].path)
    /\ 2 * SizeOf(loc["p1"].content) > LimitOf(quotas, 1) - UsedBytes(quotas, 1)

\* C1: of k concurrent uploads of size s by a principal with limit L and u
\* bytes used (k * s > L - u), exactly floor((L - u) / s) succeed and the
\* used bytes end at u + successes * s; here k = 2 and u = 0
C1_ConcurrentUploadsRespectQuota ==
    TwoUploadsReturned =>
        LET s == SizeOf(loc["p1"].content)
            L == LimitOf(quotas, 1)
            fit == IF L \div s < 2 THEN L \div s ELSE 2
        IN  /\ Cardinality({p \in Procs : res[p].ok}) = fit
            /\ UsedBytes(quotas, 1) = fit * s

WPcs == {"w_name", "w_put", "w_commit", "w_cleanup", "w_return"}

\* C7: a read of q that overlaps an overwrite of q succeeds and returns
\* either the old bytes with the old size and SHA-256 or the new bytes with
\* the new ones, never a mixture, and never fails for a missing blob
C7_ReadDuringOverwrite ==
    [][\A p \in Procs, w \in Procs :
        (/\ loc[p].op = "read"
         /\ pc[p] # "idle"
         /\ pc'[p] = "idle"
         /\ pc[w] \in WPcs
         /\ loc[w].fid = loc[p].fid) =>
            /\ res'[p].ok
            /\ res'[p].meta.size_bytes = SizeOf(res'[p].data)
            /\ res'[p].meta.checksum_sha256 = Sha256(res'[p].data)
            /\ \/ res'[p].meta.checksum_sha256 = loc[w].snap.checksum_sha256
               \/ res'[p].data = loc[w].content]_vars

\* -------------------------------------------------------- session manager
\* WEBDAV_SESSION_LIMIT (5 by default) and WEBDAV_SESSION_TIMEOUT (1800 s by
\* default), scaled down
SessionLimit == 1
SessionTimeout == 1

\* WebDAVSession.objects.filter(user=user)
SessionsOf(ss, user) == {i \in DOMAIN ss : ss[i].user = user}

\* rows a statement of p must wait for: locked by another transaction
LockedByOther(ss, p, rows) == \E i \in rows : ss[i].locked_by \notin {"", p}

\* cleanup_stale_sessions: the rows with last_activity < now - timeout
Stale(ss, t) == {i \in DOMAIN ss : ss[i].last_activity < t - SessionTimeout}

CleanupStaleSessions_KeepAll(ss, t) == ss

CleanupStaleSessions(ss, t) == [i \in DOMAIN ss \ Stale(ss, t) |-> ss[i]]

\* COMMIT or ROLLBACK of p's transaction releases its row locks
Release(ss, p) ==
    [i \in DOMAIN ss |-> IF ss[i].locked_by = p THEN [ss[i] EXCEPT !.locked_by = ""]
                         ELSE ss[i]]

\* secrets.token_hex: an id no row has
FreshSessionId(ss) ==
    CHOOSE i \in 1..(Cardinality(DOMAIN ss) + 1) :
        /\ i \notin DOMAIN ss
        /\ \A j \in 1..(i - 1) : j \in DOMAIN ss

CanStartSession(p) ==
    /\ spc[p].at = "idle"
    /\ sops < MaxSessionOps

\* create_session raised SessionLimitExceededError for user
SLimitExceeded(user) == [at |-> "idle", user |-> user, err |-> "SessionLimitExceeded"]

\* create_session: cleanup_stale_sessions(); since is the time of the call
SCreateCleanup(p, user) ==
    /\ CanStartSession(p)
    /\ ~LockedByOther(sessions, p, Stale(sessions, now))
    /\ sessions' = CleanupStaleSessions(sessions, now)
    /\ spc' = [spc EXCEPT ![p] = [at |-> "count", user |-> user, since |-> now]]
    /\ sops' = sops + 1
    /\ UNCHANGED <<fileVars, now, resolveVars>>

\* create_session: select_for_update().filter(user=user).count() and the
\* comparison with the limit; the rows counted stay locked
SCreateCount(p) ==
    /\ spc[p].at = "count"
    /\ LET mine == SessionsOf(sessions, spc[p].user)
       IN  /\ ~LockedByOther(sessions, p, mine)
           /\ IF Cardinality(mine) >= SessionLimit
              THEN /\ spc' = [spc EXCEPT ![p] = SLimitExceeded(spc[p].user)]
                   /\ UNCHANGED sessions
              ELSE /\ spc' = [spc EXCEPT ![p].at = "insert"]
                   /\ sessions' = [i \in DOMAIN sessions |->
                                     IF i \in mine
                                     THEN [sessions[i] EXCEPT !.locked_by = p]
                                     ELSE sessions[i]]
    /\ UNCHANGED <<fileVars, now, sops, resolveVars>>

\* create_session: WebDAVSession.objects.create(...) and the commit
SCreateInsert(p) ==
    /\ spc[p].at = "insert"
    /\ sessions' = Release(sessions, p) @@
                     (FreshSessionId(sessions) :>
                        [user |-> spc[p].user, last_activity |-> now, locked_by |-> ""])
    /\ spc' = [spc EXCEPT ![p] = SIdle]
    /\ UNCHANGED <<fileVars, now, sops, resolveVars>>

\* update_session_activity(session_id)
SHeartbeat(p, sid) ==
    /\ CanStartSession(p)
    /\ sid \in DOMAIN sessions
    /\ ~LockedByOther(sessions, p, {sid})
    /\ sessions[sid].last_activity # now
    /\ sessions' = [sessions EXCEPT ![sid].last_activity = now]
    /\ sops' = sops + 1
    /\ UNCHANGED <<fileVars, now, spc, resolveVars>>

\* end_session(session_id)
SEnd(p, sid) ==
    /\ CanStartSession(p)
    /\ sid \in DOMAIN sessions
    /\ ~LockedByOther(sessions, p, {sid})
    /\ sessions' = [i \in DOMAIN sessions \ {sid} |-> sessions[i]]
    /\ sops' = sops + 1
    /\ UNCHANGED <<fileVars, now, spc, resolveVars>>

\* cleanup_stale_sessions() on its own
SReap(p) ==
    /\ CanStartSession(p)
    /\ Stale(sessions, now) # {}
    /\ ~LockedByOther(sessions, p, Stale(sessions, now))
    /\ sessions' = CleanupStaleSessions(sessions, now)
    /\ sops' = sops + 1
    /\ UNCHANGED <<fileVars, now, spc, resolveVars>>

NextSession ==
    \/ \E p \in Procs, user \in Users : SCreateCleanup(p, user)
    \/ \E p \in Procs : SCreateCount(p)
    \/ \E p \in Procs : SCreateInsert(p)
    \/ \E p \in Procs, sid \in 1..MaxSessionOps : SHeartbeat(p, sid)
    \/ \E p \in Procs, sid \in 1..MaxSessionOps : SEnd(p, sid)
    \/ \E p \in Procs : SReap(p)
    \/ Tick

SpecSession == Init /\ [][NextSession]_vars

\* C8: under any interleaving of session create, heartbeat, end and reap, no
\* principal ever has more session rows than the session limit
C8_SessionCap ==
    \A user \in Users : Cardinality(SessionsOf(sessions, user)) <= SessionLimit

\* ------------------------------------------- path mapper and the resolver
ValidatePath_NoTraversalCheck(webdav_path) == ~Contains1(webdav_path, NUL)

\* PathMapper.validate_path
ValidatePath(webdav_path) ==
    /\ ~Contains2(webdav_path, ".", ".")
    /\ ~Contains1(webdav_path, NUL)

\* PathMapper.is_root
IsRoot(webdav_path) == Strip(webdav_path, "/") = <<>>

\* PathMapper.to_storage_path
ToStoragePath(user_id, webdav_path) ==
    IF Strip(webdav_path, "/") = <<>> THEN IdStr(user_id)
    ELSE IdStr(user_id) \o <<"/">> \o Strip(webdav_path, "/")

\* DjangoDAVProvider.get_resource_inst
GetResourceInst(fs, user, path) ==
    IF ~ValidatePath(path) THEN NoResource
    ELSE IF IsRoot(path) THEN [kind |-> "folder", ids |-> {}]
    ELSE LET storage_path == ToStoragePath(user, path)
             folder_prefix == RStrip(storage_path, "/") \o <<"/">>
         IN  IF LiveAt(fs, user, storage_path) # {}
             THEN [kind |-> "file", ids |-> LiveAt(fs, user, storage_path)]
             ELSE IF LiveUnder(fs, user, folder_prefix) # {}
             THEN [kind |-> "folder", ids |-> {}]
             ELSE NoResource

\* list_directory(user, folder_path)
ListDirectory(fs, user, folder_path) ==
    LiveUnder(fs, user,
              IF folder_path # <<>> THEN IdStr(user) \o <<"/">> \o Strip(folder_path, "/")
              ELSE IdStr(user))

\* FolderCollection.get_member_names: the rows the names are taken from
MemberRows(fs, user, path) ==
    LiveUnder(fs, user,
              IF IsRoot(path) THEN IdStr(user) \o <<"/">>
              ELSE RStrip(ToStoragePath(user, path), "/") \o <<"/">>)

\* WebDAV paths and folder paths the isolation check asks for, with ones
\* that spell another user's prefix
IsolationPaths ==
    {<<"/">>, <<"/", "r", ".", "t">>, <<"/", "d">>, <<"/", "d", "/", "r", ".", "t">>,
     <<"/", "1", "/", "r", ".", "t">>, <<"/", "2", "/", "r", ".", "t">>,
     <<"/", ".", ".", "/", "1", "/", "r", ".", "t">>}

IsolationFolders == {<<>>, <<"d">>, <<".", ".", "/", "1">>}

\* the keys whose blob a step wrote
Written(bl, bl2) == {k \in DOMAIN bl2 : k \notin DOMAIN bl \/ bl2[k] # bl[k]}

\* both users call the engine, with paths under either prefix
CanStartIso == nops < MaxIsoOps

NextIso ==
    \/ \E user \in Users, path \in EnginePaths :
            CanStartIso /\ Upload("p1", user, path, "A", "none")
    \/ \E fid \in 1..MaxIsoOps : CanStartIso /\ Update("p1", fid, "B", "none")
    \/ \E fid \in 1..MaxIsoOps : CanStartIso /\ SoftDelete("p1", fid, "none")
    \/ \E fid \in 1..MaxIsoOps, dest \in {<<>>} \cup EnginePaths :
            CanStartIso /\ Restore("p1", fid, dest, "none")

SpecIso == Init /\ [][NextIso]_vars

\* no resolver or listing call for a user returns a row of another user
OwnRowsOnly ==
    \A user \in Users :
        /\ \A path \in IsolationPaths :
              \A i \in GetResourceInst(files, user, path).ids
                         \cup MemberRows(files, user, path) : files[i].user = user
        /\ \A folder \in IsolationFolders :
              \A i \in ListDirectory(files, user, folder) : files[i].user = user

PathAlphabet == {"/", ".", NUL, "r"}
RequestPaths == UNION {[1..k -> PathAlphabet] : k \in 0..MaxPathLen}

\* rows the resolver may find, whatever wrote them: a plain file of each
\* user, a row whose key has a ".." segment and one whose key has a NUL
ResolveRows ==
    <<NewFile(1, <<"1", "/", "r">>, "A", 0),
      NewFile(2, <<"2", "/", "r">>, "B", 0),
      NewFile(1, <<"1", "/", ".", ".">>, "A", 0),
      NewFile(1, <<"1", "/", NUL>>, "A", 0)>>

InitResolve ==
    /\ \E D \in SUBSET (1..Len(ResolveRows)) : files = [i \in D |-> ResolveRows[i]]
    /\ blobs = <<>>
    /\ quotas = <<>>
    /\ nextId = Len(ResolveRows) + 1
    /\ pc = [p \in Procs |-> "idle"]
    /\ loc = [p \in Procs |-> NoLoc]
    /\ res = [p \in Procs |-> NoRes]
    /\ nops = 0
    /\ nfaults = 0
    /\ now = 0
    /\ InitSessionsIdle
    /\ InitResolveIdle

\* one request reaches the provider
Resolve(user, path) ==
    /\ resp = Unasked
    /\ req' = [user |-> user, path |-> path]
    /\ resp' = GetResourceInst(files, user, path)
    /\ UNCHANGED <<fileVars, now, sessVars>>

NextResolve == \E user \in Users, path \in RequestPaths : Resolve(user, path)

SpecResolve == InitResolve /\ [][NextResolve]_vars

\* a path segment that is exactly ".."
HasDotDotSegment(path) ==
    \E i \in 1..(Len(path) - 1) :
        /\ path[i] = "." /\ path[i + 1] = "."
        /\ i = 1 \/ path[i - 1] = "/"
        /\ i + 1 = Len(path) \/ path[i + 2] = "/"

RetentionDays == 1

\* decrement_usage without the clamp at zero
DecrementUsage_NoClamp(q, user, size) ==
    IF user \notin DOMAIN q THEN q
    ELSE [q EXCEPT ![user].used_bytes = @ - size]

\* decrement_usage: no quota row, nothing to do; never below zero
DecrementUsage(q, user, size) ==
    IF user \notin DOMAIN q THEN q
    ELSE [q EXCEPT ![user].used_bytes = IF @ - size < 0 THEN 0 ELSE @ - size]

\* the post_delete signal: the blob goes if it is there and the storage
\* answers; an error is logged and swallowed
DeleteFileFromStorage(bl, name, delfails) ==
    IF delfails \/ ~Exists(bl, name) THEN bl ELSE StorageDelete(bl, name)

\* permanent_delete_file on ps = [files, blobs, quotas]: the row delete, the
\* signal and the decrement share one transaction, the blob does not
PermanentDeleteCall(ps, fid, fail) ==
    IF fid \notin DOMAIN ps.files \/ ~ps.files[fid].is_deleted \/ fail = "db"
    THEN [ps EXCEPT !.ok = FALSE]
    ELSE LET f == ps.files[fid]
             bl2 == DeleteFileFromStorage(ps.blobs, f.file, fail = "del")
         IN  IF fail = "dec"
             THEN [ps EXCEPT !.blobs = bl2, !.ok = FALSE]
             ELSE [files |-> [i \in DOMAIN ps.files \ {fid} |-> ps.files[i]],
                   blobs |-> bl2,
                   quotas |-> DecrementUsage(ps.quotas, f.user, f.size_bytes),
                   ok |-> TRUE]

\* the trashed rows of every user deleted at or before the cutoff
Expired(fs, t) ==
    {i \in DOMAIN fs : fs[i].is_deleted /\ fs[i].deleted_at <= t - RetentionDays}

\* order_by('deleted_at')[:batch_size]: a slice of the oldest rows; rows with
\* equal deleted_at come in an order the database chooses
OldestSlices(fs, t, batch_size) ==
    LET E == Expired(fs, t)
        k == IF batch_size < Cardinality(E) THEN batch_size ELSE Cardinality(E)
    IN  {S \in SUBSET E :
            /\ Cardinality(S) = k
            /\ \A i \in S, j \in E \ S : fs[i].deleted_at <= fs[j].deleted_at}

\* the loop ending at the first item that fails
RECURSIVE PurgeLoop_Aborts(_, _, _, _)
PurgeLoop_Aborts(ps, S, bad, fail) ==
    IF S = {} THEN ps
    ELSE LET i == CHOOSE x \in S : \A y \in S : x <= y
             out == PermanentDeleteCall(ps, i, IF i = bad THEN fail ELSE "none")
         IN  IF out.ok THEN PurgeLoop_Aborts(out, S \ {i}, bad, fail) ELSE out

\* the loop of Command.handle over the slice; the item bad meets the fault
\* fail, is counted as failed, and the loop goes on
RECURSIVE PurgeLoop(_, _, _, _)
PurgeLoop(ps, S, bad, fail) ==
    IF S = {} THEN ps
    ELSE LET i == CHOOSE x \in S : \A y \in S : x <= y
             out == PermanentDeleteCall(ps, i, IF i = bad THEN fail ELSE "none")
         IN  PurgeLoop([out EXCEPT !.ok = ps.ok /\ out.ok], S \ {i}, bad, fail)

PurgeFails == {"none", "db", "dec", "del"}

\* python manage.py cleanup_trash --batch-size batch_size
PurgeExpired(p, batch_size, bad, fail) ==
    /\ CanStart(p)
    /\ \E S \in OldestSlices(files, now, batch_size) :
          /\ (fail = "none") = (bad = 0)
          /\ bad = 0 \/ bad \in S
          /\ nfaults' = nfaults + (IF fail = "none" THEN 0 ELSE 1)
          /\ nfaults' <= MaxFaults
          /\ LET out == PurgeLoop([files |-> files, blobs |-> blobs, quotas |-> quotas,
                                   ok |-> TRUE], S, bad, fail)
             IN  /\ quotas' = out.quotas
                 /\ Return(p, [NoLoc EXCEPT !.op = "purge", !.batch = batch_size,
                                            !.fid = bad, !.fail = fail],
                           Outcome(Store(out.files, out.blobs, nextId), out.ok, "", 0),
                           "", NoMeta)
    /\ UNCHANGED <<now, sessVars, resolveVars>>

\* permanent_delete_file(file_id): the lookup among the trashed rows raises
\* File.DoesNotExist before anything is touched
PermanentDelete(p, fid, fail) ==
    /\ CanStart(p)
    /\ LET ps == [files |-> files, blobs |-> blobs, quotas |-> quotas, ok |-> TRUE]
           found == fid \in DOMAIN files /\ files[fid].is_deleted
           out == PermanentDeleteCall(ps, fid, fail)
           base == PermanentDeleteCall(ps, fid, "none")
       IN  /\ fail = "none" \/ (nfaults < MaxFaults /\ found)
           /\ nfaults' = IF fail = "none" THEN nfaults ELSE nfaults + 1
           /\ quotas' = out.quotas
           /\ Return(p, [NoLoc EXCEPT !.op = "permanent_delete", !.fid = fid,
                                      !.fail = fail,
                                      !.snap = IF found THEN files[fid] ELSE NoRec],
                     Outcome(Store(out.files, out.blobs, nextId), out.ok,
                             IF out.ok THEN ""
                             ELSE IF found THEN "DatabaseError" ELSE "DoesNotExist",
                             fid),
                     "", NoMeta)
    /\ UNCHANGED <<now, sessVars, resolveVars>>

\* list_trash(user)
ListTrash(fs, user) == {i \in AllObjects(fs) : fs[i].user = user /\ fs[i].is_deleted}

\* list(list_trash(user)): the trashed rows of user, newest first; rows with
\* equal deleted_at come in an order the database chooses
TrashOrders(fs, user) ==
    LET T == ListTrash(fs, user)
    IN  {s \in [1..Cardinality(T) -> T] :
            /\ \A i, j \in DOMAIN s : i # j => s[i] # s[j]
            /\ \A i, j \in DOMAIN s : i < j => fs[s[i]].deleted_at >= fs[s[j]].deleted_at}

\* the loop of empty_trash over the list from position k: an item that fails
\* is logged and re-raised, which ends the loop
RECURSIVE EmptyLoop(_, _, _, _, _)
EmptyLoop(ps, s, k, bad, fail) ==
    IF k > Len(s) THEN [ps |-> ps, count |-> k - 1]
    ELSE LET out == PermanentDeleteCall(ps, s[k], IF s[k] = bad THEN fail ELSE "none")
         IN  IF out.ok THEN EmptyLoop(out, s, k + 1, bad, fail)
             ELSE [ps |-> out, count |-> k - 1]

\* empty_trash(user)
EmptyTrash(p, user, bad, fail) ==
    /\ CanStart(p)
    /\ \E s \in TrashOrders(files, user) :
          /\ (fail = "none") = (bad = 0)
          /\ bad = 0 \/ \E k \in DOMAIN s : s[k] = bad
          /\ nfaults' = nfaults + (IF fail = "none" THEN 0 ELSE 1)
          /\ nfaults' <= MaxFaults
          /\ LET out == EmptyLoop([files |-> files, blobs |-> blobs, quotas |-> quotas,
                                   ok |-> TRUE], s, 1, bad, fail)
             IN  /\ quotas' = out.ps.quotas
                 /\ Return(p, [NoLoc EXCEPT !.op = "empty_trash", !.user = user,
                                            !.fid = bad, !.fail = fail,
                                            !.count = out.count],
                           Outcome(Store(out.ps.files, out.ps.blobs, nextId), out.ps.ok,
                                   IF out.ps.ok THEN "" ELSE "DatabaseError", 0),
                           "", NoMeta)
    /\ UNCHANGED <<now, sessVars, resolveVars>>

\* three files of two users are stored, no usage was ever counted
PurgeRows ==
    (1 :> NewFile(1, K_r, "A", 0)) @@ (2 :> NewFile(2, K_2r, "B", 0))
        @@ (3 :> NewFile(1, K_dr, "B", 0))

InitPurge ==
    /\ files = PurgeRows
    /\ blobs = [k \in {K_r, K_2r, K_dr} |-> IF k = K_r THEN "A" ELSE "B"]
    /\ quotas \in {[u \in D |-> [quota_bytes |-> DefaultQuotaBytes, used_bytes |-> 0]] :
                     D \in SUBSET Users}
    /\ nextId = 4
    /\ pc = [p \in Procs |-> "idle"]
    /\ loc = [p \in Procs |-> NoLoc]
    /\ res = [p \in Procs |-> NoRes]
    /\ nops = 0
    /\ nfaults = 0
    /\ now = 0
    /\ InitSessionsIdle
    /\ InitResolveIdle

NextPurge ==
    \/ \E fid \in 1..3 : SoftDelete("p1", fid, "none")
    \/ \E batch_size \in 1..MaxBatch, bad \in 0..3, fail \in PurgeFails :
            PurgeExpired("p1", batch_size, bad, fail)
    \/ \E fid \in 1..4, fail \in PurgeFails : PermanentDelete("p1", fid, fail)
    \/ \E user \in Users, bad \in 0..3, fail \in PurgeFails :
            EmptyTrash("p1", user, bad, fail)
    \/ Tick

SpecPurge == InitPurge /\ [][NextPurge]_vars

RECURSIVE SizeSum(_, _)
SizeSum(fs, S) ==
    IF S = {} THEN 0
    ELSE LET i == CHOOSE x \in S : TRUE
         IN  fs[i].size_bytes + SizeSum(fs, S \ {i})

\* C11: one cleanup run with batch size b in which no storage or database
\* call fails removes exactly the min(b, n) oldest of the n trashed rows
\* deleted at least the retention period ago, over all users; the blob of each
\* removed row is gone and its size is subtracted from its owner's used bytes;
\* every other row and blob is untouched
C11_PurgeRemovesOldestExpired ==
    [][Returned("purge") /\ loc'["p1"].fail = "none" =>
        LET E == Expired(files, now)
            b == loc'["p1"].batch
            k == IF b < Cardinality(E) THEN b ELSE Cardinality(E)
            removed == DOMAIN files \ DOMAIN files'
        IN  /\ removed \in OldestSlices(files, now, b)
            /\ Cardinality(removed) = k
            /\ \A i \in removed : ~Exists(blobs', files[i].file)
            /\ \A u \in Users :
                  UsedBytes(quotas', u) =
                      UsedBytes(quotas, u)
                          - SizeSum(files, {i \in removed : files[i].user = u})
            /\ \A i \in DOMAIN files \ removed :
                  /\ files'[i] = files[i]
                  /\ Exists(blobs, files[i].file) =>
                        /\ Exists(blobs', files[i].file)
                        /\ blobs'[files[i].file] = blobs[files[i].file]]_vars

\* ------------------------------------------------- move, copy, hard delete
\* copy_file(user, source_path, dest_path)
CopyFileCall(st, user, source_path, dest_path, fail, rbfails, t) ==
    IF ~ValidateStoragePath(user, dest_path) THEN Outcome(st, FALSE, "ValidationError", 0)
    ELSE IF LiveAt(st.files, user, source_path) = {}
    THEN Outcome(st, FALSE, "DoesNotExist", 0)
    ELSE LET src == CHOOSE i \in LiveAt(st.files, user, source_path) : TRUE
         IN  IF ~Exists(st.blobs, source_path) \/ fail = "put"
             THEN Outcome(st, FALSE, "StorageError", 0)
             ELSE LET name == SaveName(st.blobs, dest_path, {})
                      bl1 == Put(st.blobs, name, st.blobs[source_path])
                  IN  IF fail = "db" \/ ~UniqueOk(st.files, st.nextId, user, dest_path)
                      THEN Outcome(Store(st.files, RollbackUpload(bl1, dest_path, rbfails),
                                         st.nextId),
                                   FALSE, "DatabaseError", 0)
                      ELSE Outcome(Store(st.files @@
                                           (st.nextId :>
                                              [st.files[src] EXCEPT !.file = dest_path,
                                                                    !.modified_at = t]),
                                         bl1, st.nextId + 1),
                                   TRUE, "", st.nextId)

\* delete_file(file_id): the row goes, the post_delete signal takes the blob
DeleteFileCall(st, fid, dbfails, delfails) ==
    IF fid \notin Objects(st.files) THEN Outcome(st, FALSE, "DoesNotExist", fid)
    ELSE IF dbfails THEN Outcome(st, FALSE, "DatabaseError", fid)
    ELSE Outcome(Store([i \in DOMAIN st.files \ {fid} |-> st.files[i]],
                       DeleteFileFromStorage(st.blobs, st.files[fid].file, delfails),
                       st.nextId),
                 TRUE, "", fid)

\* FileResource.copy_move_single(dest_path, is_move), then, for a MOVE, the
\* delete() the DAV library calls on the source once the copy is done
CopyMoveSingleCall(st, fid, dest_path, is_move, fail, rbfails, delfails, t) ==
    IF fid \notin Objects(st.files) THEN Outcome(st, FALSE, "DoesNotExist", fid)
    ELSE LET user == st.files[fid].user
             c == CopyFileCall(st, user, st.files[fid].file,
                               ToStoragePath(user, dest_path), fail, rbfails, t)
         IN  IF ~c.ok \/ ~is_move THEN c
             ELSE LET d == DeleteFileCall(c, fid, fail = "del_db", delfails)
                  IN  [d EXCEPT !.fid = c.fid]


\* move_file as one call
Move(p, user, old, new, fail) ==
    /\ CanStart(p)
    /\ LET st == Store(files, blobs, nextId)
           out == MoveFileCall(st, user, old, new, StepOf(fail), RbFails(fail),
                               fail = "del", now)
           base == MoveFileCall(st, user, old, new, "none", FALSE, FALSE, now)
           rows == LiveAt(files, user, old)
       IN  /\ Fault(fail, out, base)
           /\ Return(p, [NoLoc EXCEPT !.op = "move", !.user = user, !.path = old,
                                      !.dest = new, !.fail = fail,
                                      !.fid = IF rows = {} THEN 0
                                              ELSE CHOOSE i \in rows : TRUE,
                                      !.old = IF Exists(blobs, old) THEN blobs[old]
                                              ELSE ""],
                     out, "", NoMeta)
    /\ UNCHANGED <<quotas, now, sessVars, resolveVars>>

\* copy_file as one call
Copy(p, user, source_path, dest_path, fail) ==
    /\ CanStart(p)
    /\ LET st == Store(files, blobs, nextId)
           out == CopyFileCall(st, user, source_path, dest_path, StepOf(fail),
                               RbFails(fail), now)
           base == CopyFileCall(st, user, source_path, dest_path, "none", FALSE, now)
           rows == LiveAt(files, user, source_path)
       IN  /\ Fault(fail, out, base)
           /\ Return(p, [NoLoc EXCEPT !.op = "copy", !.user = user,
                                      !.path = source_path, !.dest = dest_path,
                                      !.fail = fail,
                                      !.fid = IF rows = {} THEN 0
                                              ELSE CHOOSE i \in rows : TRUE],
                     out, "", NoMeta)
    /\ UNCHANGED <<quotas, now, sessVars, resolveVars>>

\* MOVE of a File resource to the WebDAV path dest_path
DavMove(p, fid, dest_path, fail) ==
    /\ CanStart(p)
    /\ fid \in Objects(files)
    /\ LET st == Store(files, blobs, nextId)
           out == CopyMoveSingleCall(st, fid, dest_path, TRUE, StepOf(fail),
                                     RbFails(fail), fail = "del", now)
           base == CopyMoveSingleCall(st, fid, dest_path, TRUE, "none", FALSE, FALSE, now)
       IN  /\ Fault(fail, out, base)
           /\ Return(p, [NoLoc EXCEPT !.op = "dav_move", !.fid = fid,
                                      !.user = files[fid].user, !.path = files[fid].file,
                                      !.dest = ToStoragePath(files[fid].user, dest_path),
                                      !.fail = fail, !.snap = files[fid],
                                      !.old = IF Exists(blobs, files[fid].file)
                                              THEN blobs[files[fid].file] ELSE ""],
                     out, "", NoMeta)
    /\ UNCHANGED <<quotas, now, sessVars, resolveVars>>

\* DELETE of a File resource: FileResource.delete
DavDelete(p, fid, fail) ==
    /\ CanStart(p)
    /\ fid \in Objects(files)
    /\ LET st == Store(files, blobs, nextId)
           out == DeleteFileCall(st, fid, fail = "db", fail = "del")
           base == DeleteFileCall(st, fid, FALSE, FALSE)
       IN  /\ Fault(fail, out, base)
           /\ Return(p, [NoLoc EXCEPT !.op = "dav_delete", !.fid = fid,
                                      !.user = files[fid].user, !.path = files[fid].file,
                                      !.fail = fail, !.snap = files[fid],
                                      !.old = IF Exists(blobs, files[fid].file)
                                              THEN blobs[files[fid].file] ELSE ""],
                     out, "", NoMeta)
    /\ UNCHANGED <<quotas, now, sessVars, resolveVars>>

\* the loop of FolderCollection.delete: delete_file for every live row under
\* the prefix, newest first; a failure is logged and re-raised
RECURSIVE DeleteFolderLoop(_, _, _, _)
DeleteFolderLoop(st, ids, dbfails, delfails) ==
    IF ids = {} THEN Outcome(st, TRUE, "", 0)
    ELSE LET i == CHOOSE x \in ids : \A y \in ids : x >= y
             out == DeleteFileCall(st, i, dbfails, delfails)
         IN  IF ~out.ok THEN out
             ELSE DeleteFolderLoop(Store(out.files, out.blobs, out.nextId), ids \ {i},
                                   dbfails, delfails)

\* DELETE of a folder: FolderCollection.delete
DavFolderDelete(p, user, path, fail) ==
    /\ CanStart(p)
    /\ LET st == Store(files, blobs, nextId)
           prefix == RStrip(ToStoragePath(user, path), "/") \o <<"/">>
           ids == LiveUnder(files, user, prefix)
           out == DeleteFolderLoop(st, ids, fail = "db", fail = "del")
           base == DeleteFolderLoop(st, ids, FALSE, FALSE)
       IN  /\ Fault(fail, out, base)
           /\ Return(p, [NoLoc EXCEPT !.op = "dav_folder_delete", !.user = user,
                                      !.path = prefix, !.fail = fail],
                     out, "", NoMeta)
    /\ UNCHANGED <<quotas, now, sessVars, resolveVars>>

\* move_folder / FolderCollection.move_recursive: move_file for every live row
\* under the old prefix, newest first (Meta.ordering is -uploaded_at, ids
\* grow with the upload time); the row bad meets the fault fail; the first
\* failure is re-raised, which ends the loop and drops moved_count
RECURSIVE MoveFolderLoop(_, _, _, _, _, _, _, _, _)
MoveFolderLoop(st, user, ids, old_prefix, new_prefix, bad, fail, t, moved_count) ==
    IF ids = {} THEN [count |-> moved_count] @@ Outcome(st, TRUE, "", 0)
    ELSE CHOOSE r \in
           {IF ~out.ok THEN out
            ELSE MoveFolderLoop(Store(out.files, out.blobs, out.nextId), user,
                                ids \ {i}, old_prefix, new_prefix, bad, fail, t,
                                moved_count + 1) :
              <<i, out>> \in
                 {<<x, [count |-> None] @@
                        MoveFileCall(st, user, st.files[x].file,
                                     new_prefix \o SubSeq(st.files[x].file,
                                                          Len(old_prefix) + 1,
                                                          Len(st.files[x].file)),
                                     IF x = bad THEN StepOf(fail) ELSE "none",
                                     x = bad /\ RbFails(fail),
                                     x = bad /\ fail = "del", t)>> :
                     x \in {y \in ids : \A z \in ids : y >= z}}} : TRUE

MoveFolderCall(st, user, old_prefix, new_prefix, bad, fail, t) ==
    IF ~ValidateStoragePath(user, new_prefix)
    THEN [count |-> None] @@ Outcome(st, FALSE, "ValidationError", 0)
    ELSE LET old_n == RStrip(old_prefix, "/") \o <<"/">>
             new_n == RStrip(new_prefix, "/") \o <<"/">>
         IN  MoveFolderLoop(st, user, LiveUnder(st.files, user, old_n), old_n, new_n,
                            bad, fail, t, 0)

\* move_folder as one call; count is the number the caller gets back
MoveFolder(p, user, old_prefix, new_prefix, bad, fail) ==
    /\ CanStart(p)
    /\ (fail = "none") = (bad = 0)
    /\ LET st == Store(files, blobs, nextId)
           out == MoveFolderCall(st, user, old_prefix, new_prefix, bad, fail, now)
           base == MoveFolderCall(st, user, old_prefix, new_prefix, 0, "none", now)
       IN  /\ Fault(fail, out, base)
           /\ Return(p, [NoLoc EXCEPT !.op = "move_folder", !.user = user,
                                      !.path = old_prefix, !.dest = new_prefix,
                                      !.fid = bad, !.fail = fail, !.count = out.count],
                     out, "", NoMeta)
    /\ UNCHANGED <<quotas, now, sessVars, resolveVars>>

K_d == <<"1", "/", "d">>
K_e == <<"1", "/", "e">>
FilePaths == {K_r, K_dr}

CanStartFiles == nops < MaxFileOps

\* the file operations of one user, storage faults on the deletes included
NextFiles ==
    \/ \E path \in FilePaths, content \in {"A", "B"} :
            CanStartFiles /\ Upload("p1", 1, path, content, "none")
    \/ \E fid \in 1..MaxFileOps, content \in {"A", "B"} :
            CanStartFiles /\ Update("p1", fid, content, "none")
    \/ \E old \in FilePaths, new \in FilePaths,
          fail \in {"none", "move_put", "move_db", "del"} :
            CanStartFiles /\ Move("p1", 1, old, new, fail)
    \/ \E source_path \in FilePaths, dest_path \in FilePaths :
            CanStartFiles /\ Copy("p1", 1, source_path, dest_path, "none")
    \/ \E fid \in 1..MaxFileOps, dest_path \in {<<"/", "r", ".", "t">>,
                                               <<"/", "d", "/", "r", ".", "t">>},
          fail \in {"none", "del"} :
            CanStartFiles /\ DavMove("p1", fid, dest_path, fail)
    \/ \E fid \in 1..MaxFileOps, fail \in {"none", "del"} :
            CanStartFiles /\ DavDelete("p1", fid, fail)
    \/ \E fail \in {"none", "del"} :
            CanStartFiles /\ DavFolderDelete("p1", 1, <<"/", "d">>, fail)
    \/ \E fid \in 1..MaxFileOps : CanStartFiles /\ SoftDelete("p1", fid, "none")
    \/ \E fid \in 1..MaxFileOps :
            /\ CanStartFiles
            /\ fid \in DOMAIN files /\ files[fid].is_deleted
            /\ Restore("p1", fid, <<>>, "none")
    \/ \E new_prefix \in {K_d, K_e} :
            CanStartFiles /\ MoveFolder("p1", 1, K_d, new_prefix, 0, "none")

SpecFiles == Init /\ [][NextFiles]_vars

\* a folder d with two files, a file outside it, and an empty folder e to
\* move into
K_ds == <<"1", "/", "d", "/", "s", ".", "t">>
K_er == <<"1", "/", "e", "/", "r", ".", "t">>
K_es == <<"1", "/", "e", "/", "s", ".", "t">>

FolderRows ==
    (1 :> NewFile(1, K_dr, "A", 0)) @@ (2 :> NewFile(1, K_ds, "B", 0))
        @@ (3 :> NewFile(1, K_r, "A", 0))

InitFolder ==
    /\ files = FolderRows
    /\ blobs = [k \in {K_dr, K_ds, K_r} |-> IF k = K_ds THEN "B" ELSE "A"]
    /\ quotas \in InitQuotas
    /\ nextId = 4
    /\ pc = [p \in Procs |-> "idle"]
    /\ loc = [p \in Procs |-> NoLoc]
    /\ res = [p \in Procs |-> NoRes]
    /\ nops = 0
    /\ nfaults = 0
    /\ now = 0
    /\ InitSessionsIdle
    /\ InitResolveIdle

FolderMoveFails == {"none", "move_put", "move_db", "move_db+rb", "del"}

\* uploads into the destination folder, soft deletes, and moves of d to e in
\* which the move of one file may fail
NextFolder ==
    \/ \E path \in {K_er, K_es} :
            CanStartFiles /\ Upload("p1", 1, path, "B", "none")
    \/ \E fid \in 1..3 : CanStartFiles /\ SoftDelete("p1", fid, "none")
    \/ \E bad \in 0..3, fail \in FolderMoveFails :
            CanStartFiles /\ MoveFolder("p1", 1, K_d, K_e, bad, fail)

SpecFolder == InitFolder /\ [][NextFolder]_vars

\* C12: after a successful move of a live file of a user from src to another
\* key dst no live row is at src, exactly one live row is at dst with the size
\* and SHA-256 the file had, the blob at dst holds the bytes the file had, the
\* blob at src is gone and the user's used bytes are unchanged
C12_MoveFile ==
    [][(/\ Returned("move") \/ Returned("dav_move")
        /\ res'["p1"].ok
        /\ loc'["p1"].path # loc'["p1"].dest) =>
        LET l == loc'["p1"]
            at_dst == LiveAt(files', l.user, l.dest)
        IN  /\ LiveAt(files', l.user, l.path) = {}
            /\ Cardinality(at_dst) = 1
            /\ \A j \in at_dst :
                  /\ files'[j].size_bytes = files[l.fid].size_bytes
                  /\ files'[j].checksum_sha256 = files[l.fid].checksum_sha256
            /\ Exists(blobs', l.dest) /\ blobs'[l.dest] = l.old
            /\ ~Exists(blobs', l.path)
            /\ quotas' = quotas]_vars

\* ---------------------------------------------------------------- listings
TrashPath == <<"/", ".", "Trash">>

\* PathMapper.is_trash_root
IsTrashRoot(webdav_path) == RStrip(webdav_path, "/") = TrashPath

\* _is_hidden_file
IsHiddenFile(name) ==
    \/ name = FolderMarker
    \/ StartsWith(name, <<".", "DS", "_", "Store">>)
    \/ StartsWith(name, <<".", "_">>)

\* remainder.split('/')[0] for a row in a subfolder, the remainder otherwise
FirstComponent(remainder) ==
    IF Contains1(remainder, "/") THEN SubSeq(remainder, 1, Find(remainder, "/") - 1)
    ELSE remainder

\* FolderCollection.get_member_names, as the set of the names in the list
FolderMemberNames(fs, user, path) ==
    LET prefix == IF IsRoot(path) THEN IdStr(user) \o <<"/">>
                  ELSE RStrip(ToStoragePath(user, path), "/") \o <<"/">>
        members == {FirstComponent(SubSeq(fs[i].file, Len(prefix) + 1, Len(fs[i].file))) :
                        i \in MemberRows(fs, user, path)}
    IN  {m \in members : ~IsHiddenFile(m)}

\* TrashCollection.get_member_names, as the set of the names in the list
TrashMemberNames(fs, user) == {PathName(fs[i].original_path) : i \in ListTrash(fs, user)}

\* a row as soft_delete_file leaves it
Trashed(r, t) ==
    [r EXCEPT !.is_deleted = TRUE, !.deleted_at = t, !.original_path = r.file,
              !.trash_name = GenerateTrashName(r.file, t), !.modified_at = t]

\* keys of plain and of hidden files, in the root and below a folder
ListKeys ==
    <<K_r, <<"1", "/", ".", "_", "r">>, <<"1", "/", ".", "DS", "_", "Store">>,
      <<"1", "/", "d", "/", ".", "folder">>, K_dr,
      <<"1", "/", ".", "_", "d", "/", "r">>, <<"2", "/", ".", "_", "r">>>>

ListPaths == {<<"/">>, <<"/", "d">>, <<"/", "d", "/">>, TrashPath, TrashPath \o <<"/">>}

\* every key holds no row, a live row or a trashed one
InitList ==
    /\ \E D \in SUBSET (1..Len(ListKeys)), T \in SUBSET (1..Len(ListKeys)) :
          /\ T \subseteq D
          /\ files = [i \in D |->
                        LET r == NewFile(IntOf(FirstPart(ListKeys[i])), ListKeys[i], "A", 0)
                        IN  IF i \in T THEN Trashed(r, 0) ELSE r]
          /\ blobs = [k \in {ListKeys[i] : i \in D} |-> "A"]
    /\ quotas = <<>>
    /\ nextId = Len(ListKeys) + 1
    /\ pc = [p \in Procs |-> "idle"]
    /\ loc = [p \in Procs |-> NoLoc]
    /\ res = [p \in Procs |-> NoRes]
    /\ nops = 0
    /\ nfaults = 0
    /\ now = 0
    /\ InitSessionsIdle
    /\ InitResolveIdle

\* PROPFIND of a folder or of the trash root: its member names
ListMembers(user, path) ==
    /\ resp = Unasked
    /\ req' = [user |-> user, path |-> path]
    /\ resp' = [kind |-> "members", ids |-> {},
                names |-> IF IsTrashRoot(path) THEN TrashMemberNames(files, user)
                          ELSE FolderMemberNames(files, user, path)]
    /\ UNCHANGED <<fileVars, now, sessVars>>

\* paths of trash items: the name of a file that may be trashed, and of none
TrashItemPaths == {TrashPath \o <<"/">> \o PathName(K_r), TrashPath \o <<"/", "x">>}

NextList ==
    \/ \E user \in Users, path \in ListPaths : ListMembers(user, path)
    \/ \E user \in Users, path \in ListPaths \cup TrashItemPaths : Resolve(user, path)

SpecList == InitList /\ [][NextList]_vars

\* C13: no listing of any folder of any user, the root and /.Trash included,
\* contains the name .folder or a name starting with .DS_Store or ._ ,
\* whatever rows are stored
C13_ListingsHideHiddenFiles ==
    resp.kind = "members" =>
        \A name \in resp.names :
            /\ name # <<".", "folder">>
            /\ ~StartsWith(name, <<".", "DS", "_", "Store">>)
            /\ ~StartsWith(name, <<".", "_">>)

\* ------------------------------------------------------------- path mapper
ToWebdavPath_KeepPrefix(user_id, storage_path) ==
    <<"/">> \o Strip(storage_path, "/")

\* PathMapper.to_webdav_path
ToWebdavPath(user_id, storage_path) ==
    LET normalized == Strip(storage_path, "/")
        prefix == IdStr(user_id) \o <<"/">>
    IN  IF normalized = IdStr(user_id) THEN <<"/">>
        ELSE IF StartsWith(normalized, prefix)
        THEN <<"/">> \o SubSeq(normalized, Len(prefix) + 1, Len(normalized))
        ELSE <<"/">> \o normalized

\* the strings the mapper is given, as WebDAV paths and as keys
MapperAlphabet == {"/", ".", "1", "2", "r"}
MapperPaths == UNION {[1..k -> MapperAlphabet] : k \in 0..MaxPathLen}

\* both conversions and both round trips of one string for one user
MapPath(user, path) ==
    /\ resp = Unasked
    /\ req' = [user |-> user, path |-> path]
    /\ resp' = [kind |-> "mapped", ids |-> {},
                key |-> ToStoragePath(user, path),
                webdav |-> ToWebdavPath(user, path),
                back |-> ToWebdavPath(user, ToStoragePath(user, path)),
                again |-> ToStoragePath(user, ToWebdavPath(user, path))]
    /\ UNCHANGED <<fileVars, now, sessVars>>

NextPath == \E user \in Users, path \in MapperPaths : MapPath(user, path)

SpecPath == Init /\ [][NextPath]_vars

\* a WebDAV path with one leading slash and no trailing one, "/" for the root
NormalizePath(q) == IF Strip(q, "/") = <<>> THEN <<"/">> ELSE <<"/">> \o Strip(q, "/")

\* k is the user's prefix or begins with the prefix and a slash
IsKeyOf(user, k) == k = IdStr(user) \/ StartsWith(k, IdStr(user) \o <<"/">>)

\* k is the user's prefix, or the prefix, a slash and a non-empty path that
\* neither begins nor ends with a slash: the keys to_storage_path returns
IsMappedKeyOf(user, k) ==
    \/ k = IdStr(user)
    \/ /\ StartsWith(k, IdStr(user) \o <<"/">>)
       /\ Len(k) > Len(IdStr(user)) + 1
       /\ k[Len(IdStr(user)) + 2] # "/"
       /\ k[Len(k)] # "/"

\* C14 as stated: to_webdav(to_key(q)) is q normalized for every valid WebDAV
\* path q, and to_key(to_webdav(k)) = k for every key k that is the user's
\* prefix or begins with the prefix and a slash
C14_PathRoundTripsAnyKey ==
    resp.kind = "mapped" =>
        /\ ValidatePath(req.path) => resp.back = NormalizePath(req.path)
        /\ IsKeyOf(req.user, req.path) => resp.again = req.path

\* C14, amended: to_webdav(to_key(q)) is q normalized for every valid WebDAV
\* path q, and to_key(to_webdav(k)) = k for every key k that is the user's
\* prefix or the prefix, a slash and a non-empty path that neither begins nor
\* ends with a slash
C14_PathRoundTrips ==
    resp.kind = "mapped" =>
        /\ ValidatePath(req.path) => resp.back = NormalizePath(req.path)
        /\ IsMappedKeyOf(req.user, req.path) => resp.again = req.path

\* the string 1/r of user 1, read as a WebDAV path and as a key
C14_Witness ==
    /\ resp.kind = "mapped"
    /\ req = [user |-> 1, path |-> <<"1", "/", "r">>]
    /\ resp.key = <<"1", "/", "1", "/", "r">>
    /\ resp.back = <<"/", "1", "/", "r">>
    /\ resp.webdav = <<"/", "r">>
    /\ resp.again = req.path

\* ---------------------------------------------------------- key uniqueness
\* no two live rows of one user share a key
LiveKeysUnique(fs) ==
    \A i, j \in Objects(fs) :
        (fs[i].user = fs[j].user /\ fs[i].file = fs[j].file) => i = j

\* the trashed rows of the user whose key is key
TrashedAt(fs, user, key) ==
    {i \in ListTrash(fs, user) : fs[i].file = key}

\* C15: in every state reached by uploads, copies, moves, folder moves,
\* overwrites, soft deletes and restores no two live rows of one user have the
\* same key; a trashed row does not count: a successful upload to the key of
\* a trashed row, with no live row there, leaves a live row at exactly that key
C15_KeyUniqueness ==
    /\ []LiveKeysUnique(files)
    /\ [][(/\ Returned("upload")
           /\ res'["p1"].ok
           /\ TrashedAt(files, loc'["p1"].user, loc'["p1"].path) # {}
           /\ LiveAt(files, loc'["p1"].user, loc'["p1"].path) = {}) =>
            /\ res'["p1"].fid \in LiveAt(files', loc'["p1"].user, loc'["p1"].path)
            /\ Cardinality(LiveAt(files', loc'["p1"].user, loc'["p1"].path)) = 1]_vars

C17_DeleteIsSoftDelete ==
    [][(Returned("dav_delete") /\ res'["p1"].ok) =>
        LET fid == loc'["p1"].fid
            r == files[fid]
        IN  /\ fid \in DOMAIN files'
            /\ files'[fid].is_deleted
            /\ Exists(blobs', r.file) /\ blobs'[r.file] = loc'["p1"].old
            /\ PathName(r.file) \notin
                   FolderMemberNames(files', r.user,
                                     ToWebdavPath(r.user, PathParent(r.file)))
            /\ PathName(r.file) \in TrashMemberNames(files', r.user)]_vars

\* ------------------------------------------------------ the trash resources
IsTrashPath_RootOnly(webdav_path) == RStrip(webdav_path, "/") = TrashPath

\* PathMapper.is_trash_path
IsTrashPath(webdav_path) ==
    \/ RStrip(webdav_path, "/") = TrashPath
    \/ StartsWith(RStrip(webdav_path, "/"), TrashPath \o <<"/">>)

Forbidden(st, fid) == Outcome(st, FALSE, "Forbidden", fid)

\* TrashFileResource.copy_move_single(dest_path, is_move)
TrashCopyMoveSingleCall(st, fid, dest_path, is_move, t) ==
    IF ~is_move THEN Forbidden(st, fid)
    ELSE IF IsTrashPath(dest_path) THEN Forbidden(st, fid)
    ELSE RestoreFileCall(st, fid, ToStoragePath(st.files[fid].user, dest_path),
                         "none", FALSE, FALSE, t)

\* TrashCollection.create_empty_resource(name): PUT of a new name in /.Trash
TrashCreateEmptyResource(p, user, name) ==
    /\ CanStart(p)
    /\ UNCHANGED nfaults
    /\ Return(p, [NoLoc EXCEPT !.op = "trash_create", !.user = user, !.name = name],
              Forbidden(Store(files, blobs, nextId), 0), "", NoMeta)
    /\ UNCHANGED <<quotas, now, sessVars, resolveVars>>

\* TrashCollection.create_collection(name): MKCOL in /.Trash
TrashCreateCollection(p, user, name) ==
    /\ CanStart(p)
    /\ UNCHANGED nfaults
    /\ Return(p, [NoLoc EXCEPT !.op = "trash_mkcol", !.user = user, !.name = name],
              Forbidden(Store(files, blobs, nextId), 0), "", NoMeta)
    /\ UNCHANGED <<quotas, now, sessVars, resolveVars>>

\* TrashFileResource.begin_write: PUT on a trashed item
TrashBeginWrite(p, fid) ==
    /\ CanStart(p)
    /\ fid \in DOMAIN files /\ files[fid].is_deleted
    /\ UNCHANGED nfaults
    /\ Return(p, [NoLoc EXCEPT !.op = "trash_write", !.fid = fid,
                               !.user = files[fid].user],
              Forbidden(Store(files, blobs, nextId), fid), "", NoMeta)
    /\ UNCHANGED <<quotas, now, sessVars, resolveVars>>

\* COPY or MOVE of a trashed item to the WebDAV path dest_path
TrashCopyMove(p, fid, dest_path, is_move) ==
    /\ CanStart(p)
    /\ fid \in DOMAIN files /\ files[fid].is_deleted
    /\ UNCHANGED nfaults
    /\ Return(p, [NoLoc EXCEPT !.op = IF is_move THEN "trash_move" ELSE "trash_copy",
                               !.fid = fid, !.user = files[fid].user,
                               !.path = files[fid].file, !.dest = dest_path],
              TrashCopyMoveSingleCall(Store(files, blobs, nextId), fid, dest_path,
                                      is_move, now),
              "", NoMeta)
    /\ UNCHANGED <<quotas, now, sessVars, resolveVars>>

\* destinations in the trash, the trash root, and one outside the trash
TrashDests ==
    {TrashPath, TrashPath \o <<"/">>, TrashPath \o <<"/", "r", ".", "t">>,
     TrashPath \o <<"/", "d", "/", "r", ".", "t">>, <<"/", "d", "/", "r", ".", "t">>}

NextTrash ==
    \/ \E user \in Users, path \in EnginePaths, content \in {"A", "B"} :
            CanStartFiles /\ Upload("p1", user, path, content, "none")
    \/ \E fid \in 1..MaxFileOps : CanStartFiles /\ SoftDelete("p1", fid, "none")
    \/ \E user \in Users :
            CanStartFiles /\ TrashCreateEmptyResource("p1", user, <<"r", ".", "t">>)
    \/ \E user \in Users : CanStartFiles /\ TrashCreateCollection("p1", user, <<"d">>)
    \/ \E fid \in 1..MaxFileOps : CanStartFiles /\ TrashBeginWrite("p1", fid)
    \/ \E fid \in 1..MaxFileOps, dest_path \in TrashDests, is_move \in BOOLEAN :
            CanStartFiles /\ TrashCopyMove("p1", fid, dest_path, is_move)

SpecTrash == Init /\ [][NextTrash]_vars

\* the destination is /.Trash itself or lies below it
UnderTrash(dest_path) ==
    \/ dest_path \in {TrashPath, TrashPath \o <<"/">>}
    \/ StartsWith(dest_path, TrashPath \o <<"/">>)

\* C18: creating a file or a collection in /.Trash, beginning a write on a
\* trashed item, copying a trashed item and moving a trashed item to a
\* destination under /.Trash all fail with Forbidden and leave every row,
\* blob and quota row unchanged
C18_TrashReadOnly ==
    [][(\/ Returned("trash_create") \/ Returned("trash_mkcol")
        \/ Returned("trash_write") \/ Returned("trash_copy")
        \/ Returned("trash_move") /\ UnderTrash(loc'["p1"].dest)) =>
        /\ ~res'["p1"].ok /\ res'["p1"].err = "Forbidden"
        /\ files' = files /\ blobs' = blobs /\ quotas' = quotas]_vars

\* a MOVE of a trashed item to /.Trash/r.t was refused
C18_Witness ==
    /\ res["p1"].op = "trash_move" /\ res["p1"].err = "Forbidden"
    /\ loc["p1"].dest = TrashPath \o <<"/", "r", ".", "t">>
    /\ loc["p1"].fid \in DOMAIN files
    /\ files[loc["p1"].fid].is_deleted
    /\ Exists(blobs, files[loc["p1"].fid].file)

\* ------------------------------------------------- quota on overwrite, copy
\* C19: an overwrite of a file of size old with content of size new, with no
\* storage or database failure, fails with QuotaExceeded and changes nothing
\* when new > old and used + (new - old) > limit; otherwise it succeeds and
\* the owner's used bytes change by exactly new - old
C19_OverwriteQuotaRule ==
    [][(/\ Returned("update")
        /\ loc'["p1"].fail = "none"
        /\ loc'["p1"].fid \in Objects(files)) =>
        LET r == files[loc'["p1"].fid]
            new == SizeOf(loc'["p1"].content)
            used == UsedBytes(quotas, r.user)
        IN  IF new > r.size_bytes /\ used + (new - r.size_bytes) > LimitOf(quotas, r.user)
            THEN /\ ~res'["p1"].ok /\ res'["p1"].err = "QuotaExceeded"
                 /\ files' = files /\ blobs' = blobs /\ quotas' = quotas
            ELSE /\ res'["p1"].ok
                 /\ UsedBytes(quotas', r.user) = used + new - r.size_bytes]_vars

\* C20: a copy of a live file of size n, with no storage or database failure
\* and a free destination, fails with QuotaExceeded and changes nothing when
\* used + n > limit; otherwise it creates a second live row at dst with the
\* size, SHA-256 and tags of the source, leaves the source row unchanged and
\* increases the owner's used bytes by exactly n
C20_CopyQuotaRule ==
    [][(/\ Returned("copy")
        /\ loc'["p1"].fail = "none"
        /\ loc'["p1"].fid \in Objects(files)
        /\ loc'["p1"].dest # loc'["p1"].path
        /\ \A i \in DOMAIN files : files[i].file # loc'["p1"].dest) =>
        LET l == loc'["p1"]
            r == files[l.fid]
            used == UsedBytes(quotas, r.user)
        IN  IF used + r.size_bytes > LimitOf(quotas, r.user)
            THEN /\ ~res'["p1"].ok /\ res'["p1"].err = "QuotaExceeded"
                 /\ files' = files /\ blobs' = blobs /\ quotas' = quotas
            ELSE /\ res'["p1"].ok
                 /\ \E j \in LiveAt(files', r.user, l.dest) :
                       /\ j \notin DOMAIN files
                       /\ files'[j].size_bytes = r.size_bytes
                       /\ files'[j].checksum_sha256 = r.checksum_sha256
                       /\ files'[j].tags = r.tags
                 /\ files'[l.fid] = r
                 /\ UsedBytes(quotas', r.user) = used + r.size_bytes]_vars

C22_EmptyTrash ==
    [][Returned("empty_trash") =>
        LET user == loc'["p1"].user
            T == ListTrash(files, user)
            removed == DOMAIN files \ DOMAIN files'
        IN  /\ removed \subseteq T
            /\ \A i \in DOMAIN files \ removed : files'[i] = files[i]
            /\ UsedBytes(quotas', user) = UsedBytes(quotas, user) - SizeSum(files, removed)
            /\ \A u \in Users \ {user} : UsedBytes(quotas', u) = UsedBytes(quotas, u)
            /\ IF res'["p1"].ok
               THEN /\ removed = T
                    /\ ListTrash(files', user) = {}
                    /\ loc'["p1"].count = Cardinality(T)
               ELSE /\ loc'["p1"].fid \in T \ removed
                    /\ Cardinality(removed) = loc'["p1"].count]_vars

\* -------------------------------------------------- trash view resolution
\* PathMapper.get_trash_item_name
GetTrashItemName(webdav_path) ==
    LET normalized == Strip(webdav_path, "/")
        prefix == <<".", "Trash", "/">>
    IN  IF StartsWith(normalized, prefix)
        THEN SubSeq(normalized, Len(prefix) + 1, Len(normalized))
        ELSE <<>>

\* what the provider answered to a resolve request
Resolved == resp.kind \in {"none", "file", "folder", "trash_root", "trash_item"}

\* C23: for every principal, resolving /.Trash, with or without a trailing
\* slash, yields the trash root, and resolving /.Trash/<name> yields a trash
\* item, one of the principal's trashed records whose original file name is
\* <name>, iff there is such a record, and no resource otherwise
C23_TrashResolution ==
    Resolved =>
        /\ IsTrashRoot(req.path) => resp.kind = "trash_root"
        /\ IsTrashPath(req.path) /\ ~IsTrashRoot(req.path) =>
              LET name == GetTrashItemName(req.path)
                  hits == {i \in ListTrash(files, req.user) :
                              PathName(files[i].original_path) = name}
              IN  IF hits = {} THEN resp = NoResource
                  ELSE /\ resp.kind = "trash_item"
                       /\ resp.ids \subseteq hits
                       /\ Cardinality(resp.ids) = 1

\* --------------------------------------------------------- session creation
\* C24: create(principal) first removes exactly the sessions whose
\* last_activity is older than now - timeout; it then goes on to insert one
\* session of the principal iff the principal's remaining sessions are fewer
\* than the limit, and otherwise fails with SessionLimitExceeded and inserts
\* nothing; a create that fails has counted only sessions of its own
\* principal, none of them stale when the create began
C24_SessionCreationRule ==
    [][\A p \in Procs :
        /\ spc[p].at = "idle" /\ spc'[p].at = "count" =>
              /\ DOMAIN sessions' =
                    {i \in DOMAIN sessions : sessions[i].last_activity >= now - SessionTimeout}
              /\ \A i \in DOMAIN sessions' : sessions'[i] = sessions[i]
        /\ spc[p].at = "count" /\ spc'[p].at # "count" =>
              LET user == spc[p].user
                  mine == {i \in DOMAIN sessions : sessions[i].user = user}
              IN  IF Cardinality(mine) < SessionLimit
                  THEN /\ spc'[p].at = "insert"
                       /\ DOMAIN sessions' = DOMAIN sessions
                  ELSE /\ spc'[p] = SLimitExceeded(user)
                       /\ sessions' = sessions
                       /\ \A i \in mine :
                              sessions[i].last_activity >= spc[p].since - SessionTimeout
        /\ spc[p].at = "insert" /\ spc'[p].at # "insert" =>
              /\ spc'[p] = SIdle
              /\ \E j \in DOMAIN sessions' \ DOMAIN sessions :
                    /\ DOMAIN sessions' = DOMAIN sessions \cup {j}
                    /\ sessions'[j].user = spc[p].user
                    /\ sessions'[j].last_activity = now
              /\ \A i \in DOMAIN sessions : sessions'[i].user = sessions[i].user]_vars

\* a create of user 1 was refused at the limit while user 2 holds a session
C24_Witness ==
    \E p \in Procs :
        /\ spc[p] = SLimitExceeded(1)
        /\ Cardinality(SessionsOf(sessions, 1)) = SessionLimit
        /\ SessionsOf(sessions, 2) # {}

\* -------------------------------------------------------------- hard delete
\* C25: a hard delete that succeeds, of one file record or of every live
\* record under a folder prefix, removes each record, subtracts its size from
\* the owner's used bytes and removes its blob; when the blob deletion of the
\* post-delete hook fails the record is removed and the size subtracted all
\* the same and the operation succeeds; records outside the prefix stay
C25_HardDelete ==
    [][Returned("dav_delete") \/ Returned("dav_folder_delete") =>
        LET l == loc'["p1"]
            targets == IF l.op = "dav_delete" THEN {l.fid}
                       ELSE LiveUnder(files, l.user, l.path)
        IN  /\ l.fail \in {"none", "del"} => res'["p1"].ok
            /\ res'["p1"].ok =>
                  /\ DOMAIN files' = DOMAIN files \ targets
                  /\ \A i \in DOMAIN files' : files'[i] = files[i]
                  /\ UsedBytes(quotas', l.user) =
                        UsedBytes(quotas, l.user) - SizeSum(files, targets)
                  /\ l.fail = "none" =>
                        \A i \in targets : ~Exists(blobs', files[i].file)]_vars

\* ---------------------------------------------------------- returned key
\* C26: after a successful upload, overwrite, copy or move the record's key is
\* the key under which the blob store's put stored the content, also when
\* that differs from the requested key, and the blob with that key exists
C26_ReturnedKeyRule ==
    [][(/\ \/ Returned("upload") \/ Returned("update")
           \/ Returned("copy") \/ Returned("move")
        /\ res'["p1"].ok) =>
        LET l == loc'["p1"]
            requested == CASE l.op = "upload" -> l.path
                           [] l.op = "update" -> TempPath(l.path)
                           [] OTHER -> l.dest
            returned == SaveName(blobs, requested, {})
        IN  /\ files'[res'["p1"].fid].file = returned
            /\ Exists(blobs', returned)]_vars

\* ------------------------------------------------------------ move failure
\* C27: a move that fails leaves the records as they were, the record's key
\* still src, the source blob in place and the blob store as the move found
\* it (a copy written to the destination is rolled back), and reports the
\* error; whenever a move removes the source blob the record's key has been
\* committed as dst
C27_MoveAtomic ==
    [][Returned("move") =>
        LET l == loc'["p1"]
        IN  /\ ~res'["p1"].ok =>
                  /\ res'["p1"].err # ""
                  /\ files' = files
                  /\ blobs' = blobs
            /\ (Exists(blobs, l.path) /\ ~Exists(blobs', l.path)) =>
                  /\ res'["p1"].ok
                  /\ files'[l.fid].file = l.dest]_vars

\* -------------------------------------------------- recursive folder move
\* C28: a folder move that succeeds has moved every live record under
\* src_prefix/ to dst_prefix/ plus its relative path; when the move of one
\* file fails the folder move aborts with an error, the records moved before
\* it are at the destination, the failing and the later ones are as they
\* were, and in both cases the caller learns the number of files moved
C28_FolderMove ==
    [][Returned("move_folder") =>
        LET l == loc'["p1"]
            old_n == RStrip(l.path, "/") \o <<"/">>
            new_n == RStrip(l.dest, "/") \o <<"/">>
            ids == LiveUnder(files, l.user, old_n)
            moved == {i \in ids :
                        files'[i].file =
                            new_n \o SubSeq(files[i].file, Len(old_n) + 1,
                                            Len(files[i].file))}
        IN  /\ \A i \in ids \ moved : files'[i] = files[i]
            /\ IF res'["p1"].ok THEN moved = ids
               ELSE /\ res'["p1"].err # ""
                    /\ moved # ids
            /\ l.count = Cardinality(moved)]_vars

\* ----------------------------------------------------------- purge failure
\* C29 as stated: when the permanent deletion of one expired item fails during
\* a purge run, no item after it in deleted_at order is deleted in that run
C29_PurgeAborts ==
    [][Returned("purge") /\ loc'["p1"].fail \in {"db", "dec"} =>
        LET bad == loc'["p1"].fid
        IN  \A i \in DOMAIN files \ DOMAIN files' :
                files[i].deleted_at <= files[bad].deleted_at]_vars

\* C29: when the permanent deletion of one expired item fails during a purge
\* run, the item stays a trashed record and the run goes on: every other item
\* of the batch, the oldest expired ones, is deleted in that run
C29_PurgeContinues ==
    [][Returned("purge") /\ loc'["p1"].fail \in {"db", "dec"} =>
        LET bad == loc'["p1"].fid
        IN  /\ bad \in DOMAIN files' /\ files'[bad] = files[bad]
            /\ \E S \in OldestSlices(files, now, loc'["p1"].batch) :
                  /\ bad \in S
                  /\ DOMAIN files \ DOMAIN files' = S \ {bad}]_vars

\* after two soft deletes a purge run of two items met a failure on one of
\* them, which is still trashed, and deleted the other
C29_Witness ==
    /\ res["p1"].op = "purge"
    /\ loc["p1"].fail \in {"db", "dec"}
    /\ loc["p1"].batch = 2
    /\ nops = 3
    /\ loc["p1"].fid \in DOMAIN files
    /\ files[loc["p1"].fid].is_deleted
    /\ Cardinality(DOMAIN files) = 2

\* ------------------------------------------- concurrent uploads, one path
\* two uploads of user 1 to one path, and nothing else, are both under way
UploadsOverlap ==
    /\ nops = 2
    /\ \A p \in Procs : loc[p].op = "upload" /\ pc[p] \in {"u_name", "u_put", "u_commit"}
    /\ loc["p1"].path = loc["p2"].path

\* both have returned and no third call has begun
UploadsReturned ==
    /\ nops = 2
    /\ \A p \in Procs : pc[p] = "idle"

\* C30: when two uploads of one principal to the same path run concurrently,
\* exactly one creates the live record at that key and the other gets a
\* duplicate-key error; afterwards exactly one live record and exactly one
\* blob, the one at that key, exist for the path
C30_ConcurrentUploadsSamePath ==
    [](UploadsOverlap =>
        [](UploadsReturned =>
            LET path == loc["p1"].path
            IN  /\ Cardinality({p \in Procs : res[p].ok}) = 1
                /\ \A p \in Procs : ~res[p].ok => res[p].err = "DatabaseError"
                /\ Cardinality(LiveAt(files, 1, path)) = 1
                /\ DOMAIN files = LiveAt(files, 1, path)
                /\ DOMAIN blobs = {path}))

\* --------------------------------------------------------------- write sink
\* the except clause of both buffers: QuotaExceededError becomes HTTP 507
SinkError(out) ==
    IF out.err = "QuotaExceeded" THEN [out EXCEPT !.err = "InsufficientStorage"] ELSE out

\* _UploadBuffer.close: "if content:" skips _write_file for an empty buffer
UploadBufferCloseCall(st, fid, content, t) ==
    IF content = "E" THEN Outcome(st, TRUE, "", fid)
    ELSE SinkError(UpdateFileCall(st, fid, content, "none", FALSE, FALSE, t))

\* _NewFileBuffer.close: the file is created, even if empty
NewFileBufferCloseCall(st, user, path, content, t) ==
    SinkError(UploadFileCall(st, user, ToStoragePath(user, path), content, "none", FALSE, t))

\* PUT onto an existing File resource: begin_write, the body, close
UploadBufferClose(p, fid, content) ==
    /\ CanStart(p)
    /\ fid \in Objects(files)
    /\ UNCHANGED nfaults
    /\ Return(p, [NoLoc EXCEPT !.op = "put", !.fid = fid, !.content = content,
                               !.user = files[fid].user, !.path = files[fid].file],
              UploadBufferCloseCall(Store(files, blobs, nextId), fid, content, now),
              "", NoMeta)
    /\ UNCHANGED <<quotas, now, sessVars, resolveVars>>

\* PUT onto a path with no resource: NewFileResource.begin_write, the body,
\* close
NewFileBufferClose(p, user, path, content) ==
    /\ CanStart(p)
    /\ GetResourceInst(files, user, path) = NoResource
    /\ UNCHANGED nfaults
    /\ Return(p, [NoLoc EXCEPT !.op = "put_new", !.user = user,
                               !.path = ToStoragePath(user, path), !.content = content],
              NewFileBufferCloseCall(Store(files, blobs, nextId), user, path, content, now),
              "", NoMeta)
    /\ UNCHANGED <<quotas, now, sessVars, resolveVars>>

SinkPaths == {<<"/", "r", ".", "t">>, <<"/", "d", "/", "r", ".", "t">>}

\* PUT requests of both users with empty and non-empty bodies
NextSink ==
    \/ \E user \in Users, path \in SinkPaths, content \in {"E", "A", "B"} :
            CanStartFiles /\ NewFileBufferClose("p1", user, path, content)
    \/ \E fid \in 1..MaxFileOps, content \in {"E", "A", "B"} :
            CanStartFiles /\ UploadBufferClose("p1", fid, content)

SpecSink == Init /\ [][NextSink]_vars

\* C31: closing the sink of a new file creates a live record at the path's
\* key holding exactly the buffered bytes, and closing the sink of an
\* existing file leaves that record with the size and SHA-256 of exactly the
\* buffered bytes, the empty content included; when the content would put
\* the owner over the limit, close fails with InsufficientStorage and no
\* record is created or changed
C31_WriteSink ==
    [][Returned("put") \/ Returned("put_new") =>
        LET l == loc'["p1"]
            new == SizeOf(l.content)
            old == IF l.op = "put" THEN files[l.fid].size_bytes ELSE 0
        IN  IF UsedBytes(quotas, l.user) + new - old > LimitOf(quotas, l.user)
            THEN /\ ~res'["p1"].ok
                 /\ res'["p1"].err = "InsufficientStorage"
                 /\ files' = files
            ELSE /\ res'["p1"].ok
                 /\ LET fid == res'["p1"].fid
                    IN  /\ fid \in Objects(files')
                        /\ l.op = "put" => fid = l.fid
                        /\ l.op = "put_new" => fid \notin DOMAIN files
                        /\ files'[fid].size_bytes = new
                        /\ files'[fid].checksum_sha256 = Sha256(l.content)
                        /\ Exists(blobs', files'[fid].file)
                        /\ blobs'[files'[fid].file] = l.content]_vars

\* ------------------------------------------------------- directory listing
\* keys below the folder d, keys of its siblings d2 and d.t, a key in the
\* root and a key of the other owner below a folder of the same name
DirKeys ==
    <<K_dr, <<"1", "/", "d", "/", "e", "/", "r">>, <<"1", "/", "d", "2", "/", "r">>,
      <<"1", "/", "d", ".", "t">>, K_r, <<"2", "/", "d", "/", "r">>>>

DirFolders == {<<>>, <<"d">>, <<"d", "/">>, <<"/", "d">>, <<"e">>}

\* every key holds no row, a live row or a trashed one
InitDir ==
    /\ \E D \in SUBSET (1..Len(DirKeys)), T \in SUBSET (1..Len(DirKeys)) :
          /\ T \subseteq D
          /\ files = [i \in D |->
                        LET r == NewFile(IntOf(FirstPart(DirKeys[i])), DirKeys[i], "A", 0)
                        IN  IF i \in T THEN Trashed(r, 0) ELSE r]
          /\ blobs = [k \in {DirKeys[i] : i \in D} |-> "A"]
    /\ quotas = <<>>
    /\ nextId = Len(DirKeys) + 1
    /\ pc = [p \in Procs |-> "idle"]
    /\ loc = [p \in Procs |-> NoLoc]
    /\ res = [p \in Procs |-> NoRes]
    /\ nops = 0
    /\ nfaults = 0
    /\ now = 0
    /\ InitSessionsIdle
    /\ InitResolveIdle

\* one call of list_directory: the rows of the returned query set
ListDir(user, folder_path) ==
    /\ resp = Unasked
    /\ req' = [user |-> user, path |-> folder_path]
    /\ resp' = [kind |-> "listing", ids |-> ListDirectory(files, user, folder_path)]
    /\ UNCHANGED <<fileVars, now, sessVars>>

NextDir == \E user \in Users, folder_path \in DirFolders : ListDir(user, folder_path)

SpecDir == InitDir /\ [][NextDir]_vars

\* the key prefix of a folder of an owner: "{owner}/{folder}/", and
\* "{owner}/" for the root
DirPrefix(user, folder_path) ==
    IF Strip(folder_path, "/") = <<>> THEN IdStr(user) \o <<"/">>
    ELSE IdStr(user) \o <<"/">> \o Strip(folder_path, "/") \o <<"/">>

\* C32: list_directory(owner, folder) returns exactly the live records of
\* the owner whose key starts with "{owner}/{folder}/" ("{owner}/" for the
\* root): no record of a sibling such as d2/r or d.t, no trashed record and
\* no record of another owner
C32_ListDirectory ==
    resp.kind = "listing" =>
        resp.ids = {i \in DOMAIN files :
                        /\ files[i].user = req.user
                        /\ ~files[i].is_deleted
                        /\ StartsWith(files[i].file, DirPrefix(req.user, req.path))}

\* ------------------------------------------------------ usage recalculation
\* get_or_create_quota: the row of the user, created with the default limit
GetOrCreateQuota(q, user) ==
    IF user \in DOMAIN q THEN q
    ELSE q @@ (user :> [quota_bytes |-> DefaultQuotaBytes, used_bytes |-> 0])

\* File.all_objects.filter(user=user).aggregate(Sum('size_bytes')) or 0
TotalSize(fs, user) == SizeSum(fs, {i \in DOMAIN fs : fs[i].user = user})

\* recalculate_usage, the aggregate query: it runs before the transaction
\* and its result is kept in the local total
RecalcSum(p, user) ==
    /\ CanStart(p)
    /\ nops' = nops + 1
    /\ Goto(p, "q_write", [NoLoc EXCEPT !.op = "recalculate", !.user = user,
                                        !.count = TotalSize(files, user)])
    /\ UNCHANGED <<files, blobs, quotas, nextId, res, nfaults, now, sessVars, resolveVars>>

\* recalculate_usage, the transaction: the quota row is fetched or created
\* and used_bytes is set to the local total
RecalcWrite(p) ==
    /\ pc[p] = "q_write"
    /\ quotas' = [GetOrCreateQuota(quotas, loc[p].user)
                      EXCEPT ![loc[p].user].used_bytes = loc[p].count]
    /\ loc' = loc
    /\ Finish(p, TRUE, "", 0, "", NoMeta)
    /\ UNCHANGED <<files, blobs, nextId, nops, nfaults, now, sessVars, resolveVars>>

\* p1 recalculates while p2 uploads, copies, trashes and permanently deletes
NextRecalc ==
    \/ \E user \in Users : RecalcSum("p1", user)
    \/ RecalcWrite("p1")
    \/ \E content \in {"A", "B"} : Upload("p2", 1, <<"1", "/", "n">>, content, "none")
    \/ Copy("p2", 1, K_r, <<"1", "/", "c">>, "none")
    \/ \E fid \in 1..3 : SoftDelete("p2", fid, "none")
    \/ \E fid \in 1..3 : PermanentDelete("p2", fid, "none")

SpecRecalc == InitPurge /\ [][NextRecalc]_vars

\* C33: when recalculate_usage of an owner completes and no other operation
\* is in progress, whatever upload, copy or permanent delete of the same
\* owner ran between its start and its end, used equals the sum of the sizes
\* of the owner's records that exist, trashed ones included
C33_RecalculateAtomic ==
    [][pc["p1"] = "q_write" /\ pc'["p1"] = "idle" /\ pc'["p2"] = "idle" =>
        UsedBytes(quotas', loc["p1"].user) = TotalSize(files', loc["p1"].user)]_vars

\* -------------------------------------------------------- quota conservation
\* every operation that creates, changes or removes records, with the faults
\* the uploads and the purges can meet
NextQuota ==
    \/ NextFiles
    \/ \E path \in FilePaths, fail \in UploadFails \ {"none"} :
            CanStartFiles /\ Upload("p1", 1, path, "A", fail)
    \/ \E fid \in 1..MaxFileOps, fail \in PurgeFails :
            CanStartFiles /\ PermanentDelete("p1", fid, fail)
    \/ \E bad \in 0..MaxFileOps, fail \in PurgeFails :
            CanStartFiles /\ EmptyTrash("p1", 1, bad, fail)
    \/ \E bad \in 0..MaxFileOps, fail \in PurgeFails :
            CanStartFiles /\ PurgeExpired("p1", MaxBatch, bad, fail)
    \/ Tick

SpecQuota == Init /\ [][NextQuota]_vars

\* C34: whenever no operation is in progress, the used bytes of every user
\* equal the sum of the sizes of that user's records, live and trashed
C34_QuotaConservation ==
    (\A p \in Procs : pc[p] = "idle") =>
        \A user \in Users : UsedBytes(quotas, user) = TotalSize(files, user)

\* -------------------------------------------------------- no dangling record
\* C35: in every state, between the steps of an operation and after a failed
\* one included, the key of every record, live or trashed, names a blob that
\* is in the store and has the size and the SHA-256 the record holds
C35_NoDanglingRecord ==
    \A i \in DOMAIN files :
        /\ Exists(blobs, files[i].file)
        /\ SizeOf(blobs[files[i].file]) = files[i].size_bytes
        /\ Sha256(blobs[files[i].file]) = files[i].checksum_sha256

\* ------------------------------------------------- compensation and its blob
\* C36: when copy_file, move_file or restore_file targets a key that a live
\* record other than the one operated on holds, and the call fails at the
\* metadata write, the blob of the occupying record is still in the store
\* afterwards with the content it had
C36_RollbackOwnWriteOnly ==
    [][(Returned("move") \/ Returned("copy") \/ Returned("restore"))
           /\ ~res'["p1"].ok /\ res'["p1"].err = "DatabaseError" =>
        LET l == loc'["p1"]
            target == IF l.op = "restore" /\ l.dest = <<>>
                      THEN files[l.fid].original_path ELSE l.dest
        IN  \A i \in Objects(files) \ {l.fid} :
                files[i].user = l.user /\ files[i].file = target /\ Exists(blobs, target) =>
                    /\ Exists(blobs', target)
                    /\ blobs'[target] = blobs[target]]_vars

\* ------------------------------------------------------------ failed restore
\* C37: after restore_file of a trashed record fails, whichever step failed,
\* the record is still trashed with the deleted_at, original_path and
\* trash_name it had, it is not among the live records, and its key and the
\* blob under that key are as they were
C37_FailedRestoreChangesNothing ==
    [][(/\ Returned("restore")
        /\ ~res'["p1"].ok
        /\ loc'["p1"].fid \in DOMAIN files
        /\ files[loc'["p1"].fid].is_deleted) =>
        LET f == loc'["p1"].fid
        IN  /\ f \in DOMAIN files'
            /\ f \notin Objects(files')
            /\ files'[f].is_deleted
            /\ files'[f].deleted_at = files[f].deleted_at
            /\ files'[f].original_path = files[f].original_path
            /\ files'[f].trash_name = files[f].trash_name
            /\ files'[f].file = files[f].file
            /\ Exists(blobs, files[f].file) =>
                  /\ Exists(blobs', files[f].file)
                  /\ blobs'[files[f].file] = blobs[files[f].file]]_vars

\* ------------------------------------------------- blob delete after commit
\* C38: permanent_delete_file removes the blob of a trashed record only when
\* the deletion of the record is committed: whenever the call returns and
\* the record is still stored, because the transaction of the row delete and
\* the decrement was rolled back, the blob is still stored with its content
C38_BlobDeleteFollowsCommit ==
    [][(/\ Returned("permanent_delete")
        /\ loc'["p1"].fid \in DOMAIN files
        /\ files[loc'["p1"].fid].is_deleted
        /\ loc'["p1"].fid \in DOMAIN files') =>
        LET key == files[loc'["p1"].fid].file
        IN  /\ ~res'["p1"].ok
            /\ files'[loc'["p1"].fid] = files[loc'["p1"].fid]
            /\ Exists(blobs, key) => (Exists(blobs', key) /\ blobs'[key] = blobs[key])]_vars

\* ------------------------------------------------ overwrite keeps the path
\* C39: after every successful PUT onto an existing file at the WebDAV path
\* q, the first and each later one, q still resolves to that file, the file's
\* blob holds the bytes of the PUT, and the listing of the parent folder
\* holds the file's name and exactly the names it held before
C39_OverwriteKeepsPath ==
    [][Returned("put") /\ res'["p1"].ok =>
        LET l == loc'["p1"]
            q == ToWebdavPath(l.user, l.path)
            r == GetResourceInst(files', l.user, q)
        IN  /\ r.kind = "file"
            /\ r.ids = {l.fid}
            /\ Exists(blobs', files'[l.fid].file)
            /\ blobs'[files'[l.fid].file] = l.content
            /\ PathName(q) \in FolderMemberNames(files', l.user, PathParent(q))
            /\ FolderMemberNames(files', l.user, PathParent(q))
                  = FolderMemberNames(files, l.user, PathParent(q))]_vars

\* ------------------------------------------------------------ purge progress
\* three stored files of two users, each live or trashed at time 0 or 1; no
\* usage was ever counted
InitPurgeLive ==
    /\ \E d \in [DOMAIN PurgeRows -> {None, 0, 1}] :
          files = [i \in DOMAIN PurgeRows |->
                     IF d[i] = None THEN PurgeRows[i] ELSE Trashed(PurgeRows[i], d[i])]
    /\ blobs = [k \in {K_r, K_2r, K_dr} |-> IF k = K_r THEN "A" ELSE "B"]
    /\ quotas \in {[u \in D |-> [quota_bytes |-> DefaultQuotaBytes, used_bytes |-> 0]] :
                     D \in SUBSET Users}
    /\ nextId = 4
    /\ pc = [p \in Procs |-> "idle"]
    /\ loc = [p \in Procs |-> NoLoc]
    /\ res = [p \in Procs |-> NoRes]
    /\ nops = 0
    /\ nfaults = 0
    /\ now = 1
    /\ InitSessionsIdle
    /\ InitResolveIdle

\* one run of cleanup_trash in an environment where the database delete of
\* the row bad raises on every attempt; count alternates so that a run is
\* told from the run before it
PurgeRun(p, batch_size, bad) ==
    /\ pc[p] = "idle"
    /\ \E S \in OldestSlices(files, now, batch_size) :
          LET fail == IF bad \in S THEN "db" ELSE "none"
              out == PurgeLoop([files |-> files, blobs |-> blobs, quotas |-> quotas,
                                ok |-> TRUE], S, bad, fail)
          IN  /\ files' = out.files
              /\ blobs' = out.blobs
              /\ quotas' = out.quotas
              /\ loc' = [loc EXCEPT ![p] = [NoLoc EXCEPT !.op = "purge",
                                                         !.batch = batch_size,
                                                         !.fid = bad, !.fail = fail,
                                                         !.count = 1 - loc[p].count]]
              /\ res' = [res EXCEPT ![p] = [NoRes EXCEPT !.op = "purge", !.ok = out.ok]]
    /\ UNCHANGED <<nextId, pc, nops, nfaults, now, sessVars, resolveVars>>

NextPurgeLive ==
    \/ \E batch_size \in 1..MaxBatch : PurgeRun("p1", batch_size, 1)
    \/ Tick

\* the scheduler keeps invoking the command
SpecPurgeLive ==
    /\ InitPurgeLive
    /\ [][NextPurgeLive]_vars
    /\ WF_vars(\E batch_size \in 1..MaxBatch : PurgeRun("p1", batch_size, 1))

\* C40: with the command invoked again and again and nothing new trashed,
\* every expired record whose deletion can succeed is eventually removed,
\* although the deletion of record 1 fails on every attempt; and a run that
\* finds no expired record removes no record and no blob and changes no quota
C40_PurgeProgress ==
    /\ \A i \in DOMAIN PurgeRows \ {1} :
          (i \in Expired(files, now)) ~> (i \notin DOMAIN files)
    /\ [][res'["p1"].op = "purge" /\ Expired(files, now) = {} =>
            files' = files /\ blobs' = blobs /\ quotas' = quotas]_vars

====
